---- MODULE Spec2Model ----
(***************************************************************************)
(* A model of rustlox: the scanner (scanner.rs), the bytecode chunk        *)
(* (chunk.rs, value.rs), the single-pass Pratt compiler (compiler.rs,      *)
(* parser.rs), the stack virtual machine (vm.rs) and the disassembler      *)
(* (debug.rs).                                                             *)
(*                                                                         *)
(* Source bytes are one-character strings; offsets are 0-based as in the   *)
(* Rust code, so byte i of a source src is src[i + 1].  A Rust panic ends  *)
(* the run: phase becomes "panic" and panic holds its message.             *)
(***************************************************************************)
EXTENDS Integers, Sequences, FiniteSets, TLC

VARIABLES
    source,     \* the bytes given to Scanner::new and Parser::new
    scanner,    \* Scanner {line, start, current}
    parser,     \* Parser {current, previous, had_error, panic_mode}
    diag,       \* the lines written to the parser's writer
    chunk,      \* Chunk {code, constants, lines}
    calls,      \* the compiler's pending calls, innermost first
    compiled,   \* what compile returned: <<>> before it returns, then <<b>>
    vm,         \* VM {ip, stack, stack_top}
    out,        \* the lines written to the VM's writer
    result,     \* what interpret returned: "none" or "InterpretOk"
    phase,      \* "compile", "compiled", "run", "done", "panic", "api",
                \* "listed"
    panic,      \* the message of the panic that ended the run, or "none"
    written,    \* history: the <<byte, line>> pairs passed to Chunk::write
    DEBUG_TRACE, \* vm.rs: whether the build traces execution
    trace,      \* what the last pass of the trace block of run wrote
    listing,    \* what disassemble_chunk wrote
    first,      \* history: <<>>, or the chunk and the boolean of a compile
                \* of this source that was made before the present one
    main        \* main.rs: where main is, args.len(), whether the file can
                \* be read, and the exit code once the process has exited

vars == <<source, scanner, parser, diag, chunk, calls, compiled, vm, out,
          result, phase, panic, written, DEBUG_TRACE, trace, listing,
          first, main>>

-----------------------------------------------------------------------------
(* Bounds of the model.                                                    *)

\* Longest source of the family of all byte strings over SrcAlphabet.
MaxSrcLen == 3

\* Most tokens of a source of the family of well-formed expressions.
MaxExprToks == 6

\* Most direct calls of Chunk::write / Chunk::add_constant on a new chunk.
MaxApiCalls == 3

-----------------------------------------------------------------------------
(* Program constants.                                                      *)

STACK_MAX == 256

U8_MAX == 255

-----------------------------------------------------------------------------
(* Characters.                                                             *)

Digits == {"0", "1", "2", "3", "4", "5", "6", "7", "8", "9"}

Letters ==
    {"a", "b", "c", "d", "e", "f", "g", "h", "i", "j", "k", "l", "m",
     "n", "o", "p", "q", "r", "s", "t", "u", "v", "w", "x", "y", "z",
     "A", "B", "C", "D", "E", "F", "G", "H", "I", "J", "K", "L", "M",
     "N", "O", "P", "Q", "R", "S", "T", "U", "V", "W", "X", "Y", "Z"}

is_digit(c) == c \in Digits

is_alpha(c) == c \in Letters \cup {"_"}

\* b'\0', which peek and peek_next return at the end of the source.
NUL == "NUL"

\* The outcome of indexing the source at or past its length.
OutOfBounds == "index out of bounds"

-----------------------------------------------------------------------------
(* Scanner (scanner.rs).  Every operator takes the source and a scanner    *)
(* record and returns what the method returns together with the scanner    *)
(* it leaves.                                                              *)

NoToken == [token_type |-> "None", start |-> 0, length |-> 0, line |-> 0]

ScannerNew == [line |-> 1, start |-> 0, current |-> 0]

is_at_end(src, sc) == sc.current >= Len(src)

scanner_advance(sc) == [sc EXCEPT !.current = @ + 1]

peek(src, sc) == IF is_at_end(src, sc) THEN NUL ELSE src[sc.current + 1]

\* source[current + 1] is read whenever current < len, also when
\* current + 1 = len.
peek_next(src, sc) ==
    IF is_at_end(src, sc) THEN NUL
    ELSE IF sc.current + 1 < Len(src) THEN src[sc.current + 2]
    ELSE OutOfBounds

matches(src, sc, expected) ==
    IF is_at_end(src, sc) THEN [hit |-> FALSE, sc |-> sc]
    ELSE IF src[sc.current + 1] # expected THEN [hit |-> FALSE, sc |-> sc]
    ELSE [hit |-> TRUE, sc |-> scanner_advance(sc)]

make_token(sc, token_type) ==
    [token_type |-> token_type, start |-> sc.start,
     length |-> sc.current - sc.start, line |-> sc.line]

\* A scan_token that steps over the end of the input when it returns the
\* end-of-input token.
ScanOk_stepping(sc, token_type) ==
    [kind |-> "Token", token |-> make_token(sc, token_type),
     sc |-> IF token_type = "Eof" THEN scanner_advance(sc) ELSE sc]

ScanOk(sc, token_type) ==
    [kind |-> "Token", token |-> make_token(sc, token_type), sc |-> sc]

\* A scan_token whose error leaves the offending byte unconsumed.
ScanErr_rewound(sc, kind) ==
    [kind |-> kind, token |-> NoToken, sc |-> [sc EXCEPT !.current = sc.start]]

ScanErr(sc, kind) == [kind |-> kind, token |-> NoToken, sc |-> sc]

RECURSIVE skip_comment(_, _)
skip_comment(src, sc) ==
    IF peek(src, sc) # "\n" /\ ~is_at_end(src, sc)
    THEN skip_comment(src, scanner_advance(sc))
    ELSE sc

RECURSIVE skip_whitespace(_, _)
skip_whitespace(src, sc) ==
    LET c == peek(src, sc) IN
    CASE c \in {" ", "\r", "\t"} -> skip_whitespace(src, scanner_advance(sc))
      [] c = "\n" ->
            skip_whitespace(src, scanner_advance([sc EXCEPT !.line = @ + 1]))
      [] c = "/" ->
            LET n == peek_next(src, sc) IN
            IF n = OutOfBounds THEN [panic |-> TRUE, sc |-> sc]
            ELSE IF n = "/" THEN skip_whitespace(src, skip_comment(src, sc))
            ELSE [panic |-> FALSE, sc |-> sc]
      [] OTHER -> [panic |-> FALSE, sc |-> sc]

RECURSIVE string_body(_, _)
string_body(src, sc) ==
    IF peek(src, sc) # "\"" /\ ~is_at_end(src, sc)
    THEN string_body(src,
            scanner_advance(IF peek(src, sc) = "\n"
                            THEN [sc EXCEPT !.line = @ + 1] ELSE sc))
    ELSE sc

\* A string that makes its token before the closing quote is consumed.
string_open(src, sc) ==
    LET s1 == string_body(src, sc) IN
    IF is_at_end(src, s1) THEN ScanErr(s1, "UnterminatedString")
    ELSE ScanOk(s1, "String")

string(src, sc) ==
    LET s1 == string_body(src, sc) IN
    IF is_at_end(src, s1) THEN ScanErr(s1, "UnterminatedString")
    ELSE ScanOk(scanner_advance(s1), "String")

RECURSIVE digit_run(_, _)
digit_run(src, sc) ==
    IF is_digit(peek(src, sc)) THEN digit_run(src, scanner_advance(sc)) ELSE sc

number(src, sc) ==
    LET s1 == digit_run(src, sc) IN
    IF peek(src, s1) = "."
    THEN LET n == peek_next(src, s1) IN
         IF n = OutOfBounds THEN ScanErr(s1, "Panic")
         ELSE IF is_digit(n)
              THEN ScanOk(digit_run(src, scanner_advance(s1)), "Number")
              ELSE ScanOk(s1, "Number")
    ELSE ScanOk(s1, "Number")

\* A check_keyword that accepts every lexeme the keyword is a prefix of.
check_keyword_prefix(src, sc, start, length, rest, token_type) ==
    IF /\ sc.current - sc.start >= start + length
       /\ SubSeq(src, sc.start + start + 1, sc.start + start + length) = rest
    THEN token_type
    ELSE "Identifier"

check_keyword(src, sc, start, length, rest, token_type) ==
    IF /\ sc.current - sc.start = start + length
       /\ SubSeq(src, sc.start + start + 1, sc.start + start + length) = rest
    THEN token_type
    ELSE "Identifier"

identifier_type(src, sc) ==
    LET c == src[sc.start + 1]
        long == sc.current - sc.start > 1
        c2 == src[sc.start + 2]
    IN
    CASE c = "a" -> check_keyword(src, sc, 1, 2, <<"n", "d">>, "And")
      [] c = "c" -> check_keyword(src, sc, 1, 4, <<"l", "a", "s", "s">>, "Class")
      [] c = "e" -> check_keyword(src, sc, 1, 3, <<"l", "s", "e">>, "Else")
      [] c = "f" ->
            IF long
            THEN CASE c2 = "a" ->
                        check_keyword(src, sc, 2, 3, <<"l", "s", "e">>, "False")
                   [] c2 = "o" -> check_keyword(src, sc, 2, 1, <<"r">>, "For")
                   [] c2 = "u" -> check_keyword(src, sc, 2, 1, <<"n">>, "Fun")
                   [] OTHER -> "Identifier"
            ELSE "Identifier"
      [] c = "i" -> check_keyword(src, sc, 1, 1, <<"f">>, "If")
      [] c = "n" -> check_keyword(src, sc, 1, 2, <<"i", "l">>, "Nil")
      [] c = "o" -> check_keyword(src, sc, 1, 1, <<"r">>, "Or")
      [] c = "p" -> check_keyword(src, sc, 1, 4, <<"r", "i", "n", "t">>, "Print")
      [] c = "r" ->
            check_keyword(src, sc, 1, 5, <<"e", "t", "u", "r", "n">>, "Return")
      [] c = "s" -> check_keyword(src, sc, 1, 4, <<"u", "p", "e", "r">>, "Super")
      [] c = "t" ->
            IF long
            THEN CASE c2 = "h" ->
                        check_keyword(src, sc, 2, 2, <<"i", "s">>, "This")
                   [] c2 = "r" ->
                        check_keyword(src, sc, 2, 2, <<"u", "e">>, "True")
                   [] OTHER -> "Identifier"
            ELSE "Identifier"
      [] c = "v" -> check_keyword(src, sc, 1, 2, <<"a", "r">>, "Var")
      [] c = "w" -> check_keyword(src, sc, 1, 4, <<"h", "i", "l", "e">>, "While")
      [] OTHER -> "Identifier"

RECURSIVE identifier_run(_, _)
identifier_run(src, sc) ==
    IF is_alpha(peek(src, sc)) \/ is_digit(peek(src, sc))
    THEN identifier_run(src, scanner_advance(sc))
    ELSE sc

identifier(src, sc) ==
    LET s1 == identifier_run(src, sc) IN ScanOk(s1, identifier_type(src, s1))

\* The token kind of `c` followed by '=' (two) or by anything else (one).
one_or_two(src, sc, one, two) ==
    LET m == matches(src, sc, "=") IN ScanOk(m.sc, IF m.hit THEN two ELSE one)

scan_token(src, sc0) ==
    LET ws == skip_whitespace(src, sc0) IN
    IF ws.panic THEN ScanErr(ws.sc, "Panic")
    ELSE
    LET s1 == [ws.sc EXCEPT !.start = ws.sc.current] IN
    IF is_at_end(src, s1) THEN ScanOk(s1, "Eof")
    ELSE
    LET c == src[s1.current + 1]
        s2 == scanner_advance(s1)
    IN
    CASE is_alpha(c) -> identifier(src, s2)
      [] is_digit(c) -> number(src, s2)
      [] c = "(" -> ScanOk(s2, "LeftParen")
      [] c = ")" -> ScanOk(s2, "RightParen")
      [] c = "{" -> ScanOk(s2, "LeftBrace")
      [] c = "}" -> ScanOk(s2, "RightBrace")
      [] c = ";" -> ScanOk(s2, "Semicolon")
      [] c = "," -> ScanOk(s2, "Comma")
      [] c = "." -> ScanOk(s2, "Dot")
      [] c = "-" -> ScanOk(s2, "Minus")
      [] c = "+" -> ScanOk(s2, "Plus")
      [] c = "/" -> ScanOk(s2, "Slash")
      [] c = "*" -> ScanOk(s2, "Star")
      [] c = "!" -> one_or_two(src, s2, "Bang", "BangEqual")
      [] c = "=" -> one_or_two(src, s2, "Equal", "EqualEqual")
      [] c = "<" -> one_or_two(src, s2, "Less", "LessEqual")
      [] c = ">" -> one_or_two(src, s2, "Greater", "GreaterEqual")
      [] c = "\"" -> string(src, s2)
      [] OTHER -> ScanErr(s2, "UnexpectedChar")

get_lexeme(src, token) ==
    SubSeq(src, token.start + 1, token.start + token.length)

-----------------------------------------------------------------------------
(* Value (value.rs): an f64.  A value is a sign, a magnitude n/d in lowest *)
(* terms, or an infinity or NaN, with IEEE-754 signs of zero and of        *)
(* division by zero.  Rounding is left out: the model's arithmetic is the  *)
(* f64 arithmetic wherever that is exact.                                  *)

RECURSIVE GCD(_, _)
GCD(a, b) == IF b = 0 THEN a ELSE GCD(b, a % b)

Num(s, n, d) ==
    LET g == GCD(n, d) IN [k |-> "num", s |-> s, n |-> n \div g, d |-> d \div g]

Inf(s) == [k |-> "inf", s |-> s, n |-> 1, d |-> 0]

NaN == [k |-> "nan", s |-> 1, n |-> 0, d |-> 0]

\* IEEE negation: the sign bit flipped.
Flip(a) == IF a.k = "nan" THEN a ELSE [a EXCEPT !.s = -a.s]

Add(a, b) ==
    CASE a.k = "nan" \/ b.k = "nan" -> NaN
      [] a.k = "inf" /\ b.k = "inf" -> IF a.s = b.s THEN a ELSE NaN
      [] a.k = "inf" -> a
      [] b.k = "inf" -> b
      [] OTHER ->
            LET x == a.s * a.n * b.d + b.s * b.n * a.d IN
            IF x = 0
            THEN Num(IF a.s = -1 /\ b.s = -1 THEN -1 ELSE 1, 0, 1)
            ELSE Num(IF x < 0 THEN -1 ELSE 1, IF x < 0 THEN -x ELSE x, a.d * b.d)

Sub(a, b) == Add(a, Flip(b))

Mul(a, b) ==
    CASE a.k = "nan" \/ b.k = "nan" -> NaN
      [] a.k = "inf" /\ b.k = "num" /\ b.n = 0 -> NaN
      [] b.k = "inf" /\ a.k = "num" /\ a.n = 0 -> NaN
      [] a.k = "inf" \/ b.k = "inf" -> Inf(a.s * b.s)
      [] OTHER -> Num(a.s * b.s, a.n * b.n, a.d * b.d)

Div(a, b) ==
    CASE a.k = "nan" \/ b.k = "nan" -> NaN
      [] a.k = "inf" /\ b.k = "inf" -> NaN
      [] a.k = "inf" -> Inf(a.s * b.s)
      [] b.k = "inf" -> Num(a.s * b.s, 0, 1)
      [] b.n = 0 -> IF a.n = 0 THEN NaN ELSE Inf(a.s * b.s)
      [] OTHER -> Num(a.s * b.s, a.n * b.d, a.d * b.n)

DigitValue(c) ==
    CASE c = "0" -> 0 [] c = "1" -> 1 [] c = "2" -> 2 [] c = "3" -> 3
      [] c = "4" -> 4 [] c = "5" -> 5 [] c = "6" -> 6 [] c = "7" -> 7
      [] c = "8" -> 8 [] c = "9" -> 9

RECURSIVE Pow10(_)
Pow10(k) == IF k = 0 THEN 1 ELSE 10 * Pow10(k - 1)

\* The integer written by the digits of `lexeme`, its '.' skipped.
RECURSIVE DigitsValue(_)
DigitsValue(lexeme) ==
    IF lexeme = <<>> THEN 0
    ELSE LET c == lexeme[Len(lexeme)]
             front == SubSeq(lexeme, 1, Len(lexeme) - 1)
         IN IF c = "." THEN DigitsValue(front)
            ELSE 10 * DigitsValue(front) + DigitValue(c)

\* str::parse::<f64> on a Number lexeme: digits, then optionally '.' and
\* digits.
parse_f64(lexeme) ==
    LET dots == {i \in 1..Len(lexeme) : lexeme[i] = "."}
        frac == IF dots = {} THEN 0 ELSE Len(lexeme) - (CHOOSE i \in dots : TRUE)
    IN Num(1, DigitsValue(lexeme), Pow10(frac))

-----------------------------------------------------------------------------
(* Chunk (chunk.rs) and ValueArray (value.rs).                             *)

OP_CONSTANT == 0

OP_ADD == 1

OP_SUBTRACT == 2

OP_MULTIPLY == 3

OP_DIVIDE == 4

OP_NEGATE == 5

OP_RETURN == 6

ChunkNew == [code |-> <<>>, constants |-> <<>>, lines |-> <<>>]

\* A write that stores a line only when it differs from the last one.
write_run_length(ch, byte, line) ==
    [ch EXCEPT !.code = Append(@, byte),
               !.lines = IF @ # <<>> /\ @[Len(@)] = line THEN @
                         ELSE Append(@, line)]

write(ch, byte, line) ==
    [ch EXCEPT !.code = Append(@, byte), !.lines = Append(@, line)]

\* A ValueArray::write that puts the new value in front of the others.
value_array_write_front(values, value) == <<value>> \o values

value_array_write(values, value) == Append(values, value)

\* An add_constant that returns the length of the pool, not the index.
add_constant_len(ch, value) ==
    LET c == [ch EXCEPT !.constants = value_array_write(@, value)] IN
    [chunk |-> c, index |-> Len(c.constants)]

add_constant(ch, value) ==
    LET c == [ch EXCEPT !.constants = value_array_write(@, value)] IN
    [chunk |-> c, index |-> Len(c.constants) - 1]

-----------------------------------------------------------------------------
(* Parser (parser.rs): the diagnostic state.                               *)

ParserNew ==
    [current |-> NoToken, previous |-> NoToken,
     had_error |-> FALSE, panic_mode |-> FALSE]

\* A diagnostic line that quotes a lexeme for the end of the input too.
DiagLine_quoting(src, token, message) ==
    [line |-> token.line, at |-> "lexeme", lexeme |-> get_lexeme(src, token),
     message |-> message]

\* One line of the writer: "[line N] Error at end: message" or
\* "[line N] Error at 'lexeme': message".
DiagLine(src, token, message) ==
    [line |-> token.line,
     at |-> IF token.token_type = "Eof" THEN "end" ELSE "lexeme",
     lexeme |-> IF token.token_type = "Eof" THEN <<>> ELSE get_lexeme(src, token),
     message |-> message]

\* An error_at that prints and enters panic mode without recording had_error.
error_at_unrecorded(p, w, src, token, message) ==
    IF p.panic_mode THEN [parser |-> p, diag |-> w]
    ELSE [parser |-> [p EXCEPT !.panic_mode = TRUE],
          diag |-> Append(w, DiagLine(src, token, message))]

\* An error_at that records the error without entering panic mode.
error_at_unsilenced(p, w, src, token, message) ==
    IF p.panic_mode THEN [parser |-> p, diag |-> w]
    ELSE [parser |-> [p EXCEPT !.had_error = TRUE],
          diag |-> Append(w, DiagLine(src, token, message))]

\* An error_at that does not look at panic_mode.
error_at_cascading(p, w, src, token, message) ==
    [parser |-> [p EXCEPT !.panic_mode = TRUE, !.had_error = TRUE],
     diag |-> Append(w, DiagLine(src, token, message))]

\* error_at: the parser and the writer it leaves.
error_at(p, w, src, token, message) ==
    IF p.panic_mode THEN [parser |-> p, diag |-> w]
    ELSE [parser |-> [p EXCEPT !.panic_mode = TRUE, !.had_error = TRUE],
          diag |-> Append(w, DiagLine(src, token, message))]

UnwrapNone == "called Option::unwrap() on a None value"

-----------------------------------------------------------------------------
(* Compiler (compiler.rs): precedences and the rule table.                 *)

PREC_NONE == 0

PREC_ASSIGNMENT == 1

PREC_OR == 2

PREC_AND == 3

PREC_EQUALITY == 4

PREC_COMPARISON == 5

PREC_TERM == 6

PREC_FACTOR == 7

PREC_UNARY == 8

PREC_CALL == 9

PREC_PRIMARY == 10

Rule(prefix, infix, precedence) ==
    [prefix |-> prefix, infix |-> infix, precedence |-> precedence]

\* A table in which '*' and '/' bind as '+' and '-' do.
get_rule_flat(token_type) ==
    CASE token_type = "LeftParen" -> Rule("grouping", "none", PREC_NONE)
      [] token_type = "Minus" -> Rule("unary", "binary", PREC_TERM)
      [] token_type \in {"Plus", "Slash", "Star"} ->
            Rule("none", "binary", PREC_TERM)
      [] token_type = "Number" -> Rule("number", "none", PREC_NONE)
      [] token_type = "Bang" -> Rule("unary", "none", PREC_NONE)
      [] OTHER -> Rule("none", "none", PREC_NONE)

\* A table in which a number binds as '+' does and has no infix handler.
get_rule_juxtaposed(token_type) ==
    CASE token_type = "LeftParen" -> Rule("grouping", "none", PREC_NONE)
      [] token_type = "Minus" -> Rule("unary", "binary", PREC_TERM)
      [] token_type = "Plus" -> Rule("none", "binary", PREC_TERM)
      [] token_type = "Slash" -> Rule("none", "binary", PREC_FACTOR)
      [] token_type = "Star" -> Rule("none", "binary", PREC_FACTOR)
      [] token_type = "Number" -> Rule("number", "none", PREC_TERM)
      [] token_type = "Bang" -> Rule("unary", "none", PREC_NONE)
      [] token_type = "BangEqual" -> Rule("none", "binary", PREC_EQUALITY)
      [] token_type = "EqualEqual" -> Rule("none", "binary", PREC_EQUALITY)
      [] token_type = "Greater" -> Rule("none", "binary", PREC_COMPARISON)
      [] token_type = "GreaterEqual" -> Rule("none", "binary", PREC_COMPARISON)
      [] token_type = "Less" -> Rule("none", "binary", PREC_COMPARISON)
      [] token_type = "LessEqual" -> Rule("none", "binary", PREC_COMPARISON)
      [] OTHER -> Rule("none", "none", PREC_NONE)

get_rule(token_type) ==
    CASE token_type = "LeftParen" -> Rule("grouping", "none", PREC_NONE)
      [] token_type = "Minus" -> Rule("unary", "binary", PREC_TERM)
      [] token_type = "Plus" -> Rule("none", "binary", PREC_TERM)
      [] token_type = "Slash" -> Rule("none", "binary", PREC_FACTOR)
      [] token_type = "Star" -> Rule("none", "binary", PREC_FACTOR)
      [] token_type = "Number" -> Rule("number", "none", PREC_NONE)
      [] token_type = "Bang" -> Rule("unary", "none", PREC_NONE)
      [] token_type = "BangEqual" -> Rule("none", "binary", PREC_EQUALITY)
      [] token_type = "EqualEqual" -> Rule("none", "binary", PREC_EQUALITY)
      [] token_type = "Greater" -> Rule("none", "binary", PREC_COMPARISON)
      [] token_type = "GreaterEqual" -> Rule("none", "binary", PREC_COMPARISON)
      [] token_type = "Less" -> Rule("none", "binary", PREC_COMPARISON)
      [] token_type = "LessEqual" -> Rule("none", "binary", PREC_COMPARISON)
      [] OTHER -> Rule("none", "none", PREC_NONE)

\* make_constant: the chunk, the operand byte and the parser state it leaves.
\* A make_constant that refuses the index 255.
make_constant_early(ch, p, w, src, value) ==
    LET a == add_constant(ch, value) IN
    IF a.index >= U8_MAX
    THEN LET e == error_at(p, w, src, p.previous,
                           "Too many constants in one chunk.")
         IN [chunk |-> a.chunk, byte |-> 0, parser |-> e.parser, diag |-> e.diag]
    ELSE [chunk |-> a.chunk, byte |-> a.index, parser |-> p, diag |-> w]

\* A make_constant that uses the index of an equal constant of the pool
\* when there is one.
make_constant_dedup(ch, p, w, src, value) ==
    LET same == {i \in 1..Len(ch.constants) : ch.constants[i] = value}
        a == add_constant(ch, value)
    IN
    IF same # {}
    THEN [chunk |-> ch, byte |-> (CHOOSE i \in same : \A j \in same : i <= j) - 1,
          parser |-> p, diag |-> w]
    ELSE [chunk |-> a.chunk, byte |-> a.index, parser |-> p, diag |-> w]

make_constant(ch, p, w, src, value) ==
    LET a == add_constant(ch, value) IN
    IF a.index > U8_MAX
    THEN LET e == error_at(p, w, src, p.previous,
                           "Too many constants in one chunk.")
         IN [chunk |-> a.chunk, byte |-> 0, parser |-> e.parser, diag |-> e.diag]
    ELSE [chunk |-> a.chunk, byte |-> a.index, parser |-> p, diag |-> w]

\* A binary that emits its opcode twice.
binary_opcode_twice(operator_type) ==
    CASE operator_type = "Plus" -> <<OP_ADD, OP_ADD>>
      [] operator_type = "Minus" -> <<OP_SUBTRACT, OP_SUBTRACT>>
      [] operator_type = "Star" -> <<OP_MULTIPLY, OP_MULTIPLY>>
      [] operator_type = "Slash" -> <<OP_DIVIDE, OP_DIVIDE>>
      [] OTHER -> <<>>

\* The bytes binary emits after its right operand.
binary_opcode(operator_type) ==
    CASE operator_type = "Plus" -> <<OP_ADD>>
      [] operator_type = "Minus" -> <<OP_SUBTRACT>>
      [] operator_type = "Star" -> <<OP_MULTIPLY>>
      [] operator_type = "Slash" -> <<OP_DIVIDE>>
      [] OTHER -> <<>>

\* A unary that emits the opcode of the binary '-'.
unary_opcode_subtract(operator_type) ==
    IF operator_type = "Minus" THEN <<OP_SUBTRACT>> ELSE <<>>

\* The bytes unary emits after its operand.
unary_opcode(operator_type) ==
    IF operator_type = "Minus" THEN <<OP_NEGATE>> ELSE <<>>

-----------------------------------------------------------------------------
(* Virtual machine (vm.rs).  The stack array is kept as its live part,     *)
(* slots 0 .. stack_top - 1: push writes a slot before it is read, so the  *)
(* stale slots above stack_top are never observed.                         *)

VMNew == [ip |-> 0, stack |-> <<>>, stack_top |-> 0]

\* read_byte: ip is a u8, and ip += 1 at 255 overflows: a panic in a build
\* with overflow checks, a wrap to 0 in a build without.
read_byte(code, ip) ==
    IF ip >= Len(code)
    THEN {[panic |-> "Index is out of bounds", byte |-> 0, ip |-> ip]}
    ELSE IF ip + 1 > U8_MAX
    THEN {[panic |-> "attempt to add with overflow", byte |-> code[ip + 1],
           ip |-> ip],
          [panic |-> "none", byte |-> code[ip + 1], ip |-> 0]}
    ELSE {[panic |-> "none", byte |-> code[ip + 1], ip |-> ip + 1]}

push(v, value) ==
    IF v.stack_top >= STACK_MAX
    THEN [panic |-> "index out of bounds: the len is 256", vm |-> v]
    ELSE [panic |-> "none",
          vm |-> [v EXCEPT !.stack = Append(@, value), !.stack_top = @ + 1]]

\* stack_top -= 1 at 0 panics with overflow checks and wraps without; the
\* wrapped index is then refused by get(..).expect(..): a panic either way.
pop(v) ==
    IF v.stack_top = 0
    THEN [panic |-> "Stack index out of bounds", value |-> NaN, vm |-> v]
    ELSE [panic |-> "none", value |-> v.stack[v.stack_top],
          vm |-> [v EXCEPT !.stack = SubSeq(@, 1, v.stack_top - 1),
                           !.stack_top = @ - 1]]

Arith(opcode, a, b) ==
    CASE opcode = OP_ADD -> Add(a, b)
      [] opcode = OP_SUBTRACT -> Sub(a, b)
      [] opcode = OP_MULTIPLY -> Mul(a, b)
      [] opcode = OP_DIVIDE -> Div(a, b)

\* An outcome of one pass of the loop of run.
Outcome(status, v, emitted) == [status |-> status, vm |-> v, emitted |-> emitted]

\* A binary_op that takes its operands in the order they are popped.
binary_op_swapped(v, opcode) ==
    LET b == pop(v)
        a == pop(b.vm)
        r == push(a.vm, Arith(opcode, b.value, a.value))
    IN
    IF b.panic # "none" THEN Outcome(b.panic, v, <<>>)
    ELSE IF a.panic # "none" THEN Outcome(a.panic, b.vm, <<>>)
    ELSE Outcome(IF r.panic # "none" THEN r.panic ELSE "running", r.vm, <<>>)

binary_op(v, opcode) ==
    LET b == pop(v)
        a == pop(b.vm)
        r == push(a.vm, Arith(opcode, a.value, b.value))
    IN
    IF b.panic # "none" THEN Outcome(b.panic, v, <<>>)
    ELSE IF a.panic # "none" THEN Outcome(a.panic, b.vm, <<>>)
    ELSE Outcome(IF r.panic # "none" THEN r.panic ELSE "running", r.vm, <<>>)

\* read_constant and push, after the opcode was fetched.
constant_op(ch, v) ==
    {LET w == [v EXCEPT !.ip = g.ip] IN
     IF g.panic # "none" THEN Outcome(g.panic, w, <<>>)
     ELSE IF g.byte >= Len(ch.constants)
     THEN Outcome("index out of bounds: constants", w, <<>>)
     ELSE LET r == push(w, ch.constants[g.byte + 1]) IN
          Outcome(IF r.panic # "none" THEN r.panic ELSE "running", r.vm, <<>>)
     : g \in read_byte(ch.code, v.ip)}

negate_op(v) ==
    LET a == pop(v)
        r == push(a.vm, Mul(Num(-1, 1, 1), a.value))
    IN
    IF a.panic # "none" THEN Outcome(a.panic, v, <<>>)
    ELSE Outcome(IF r.panic # "none" THEN r.panic ELSE "running", r.vm, <<>>)

\* An OpReturn arm that writes the value and stays in the loop.
return_op_continue(v) ==
    LET a == pop(v) IN
    IF a.panic # "none" THEN Outcome(a.panic, v, <<>>)
    ELSE Outcome("running", a.vm, <<[value |-> a.value]>>)

return_op(v) ==
    LET a == pop(v) IN
    IF a.panic # "none" THEN Outcome(a.panic, v, <<>>)
    ELSE Outcome("InterpretOk", a.vm, <<[value |-> a.value]>>)

\* The outcomes of one pass of the loop of run (tracing off).
run_step(ch, v) ==
    UNION {LET w == [v EXCEPT !.ip = f.ip] IN
           IF f.panic # "none" THEN {Outcome(f.panic, w, <<>>)}
           ELSE CASE f.byte = OP_CONSTANT -> constant_op(ch, w)
                  [] f.byte \in {OP_ADD, OP_SUBTRACT, OP_MULTIPLY, OP_DIVIDE} ->
                        {binary_op(w, f.byte)}
                  [] f.byte = OP_NEGATE -> {negate_op(w)}
                  [] f.byte = OP_RETURN -> {return_op(w)}
                  [] OTHER -> {Outcome("Unknown opcode", w, <<>>)}
           : f \in read_byte(ch.code, v.ip)}

-----------------------------------------------------------------------------
(* The disassembler (debug.rs).  A line of a listing is a record of what   *)
(* is printed: the offset, the line number (<<>> where "|" is printed),    *)
(* the name of the opcode, and for OP_CONSTANT the operand and the value.  *)

OpName(byte) ==
    CASE byte = OP_CONSTANT -> "OP_CONSTANT"
      [] byte = OP_ADD -> "OP_ADD"
      [] byte = OP_SUBTRACT -> "OP_SUBTRACT"
      [] byte = OP_MULTIPLY -> "OP_MULTIPLY"
      [] byte = OP_DIVIDE -> "OP_DIVIDE"
      [] byte = OP_NEGATE -> "OP_NEGATE"
      [] byte = OP_RETURN -> "OP_RETURN"
      [] OTHER -> "Unknown opcode"

Disassembled(msg, line, next) == [panic |-> msg, line |-> line, next |-> next]

simple_instruction(name, head, offset) ==
    Disassembled("none",
                 <<[offset |-> head.offset, line |-> head.line, name |-> name,
                    operand |-> <<>>, value |-> <<>>]>>,
                 offset + 1)

constant_instruction(name, ch, head, offset) ==
    IF offset + 1 >= Len(ch.code)
    THEN Disassembled("index out of bounds: code", <<>>, offset)
    ELSE LET constant == ch.code[offset + 2] IN
         IF constant >= Len(ch.constants)
         THEN Disassembled("index out of bounds: constants", <<>>, offset)
         ELSE Disassembled("none",
                           <<[offset |-> head.offset, line |-> head.line,
                              name |-> name, operand |-> <<constant>>,
                              value |-> <<ch.constants[constant + 1]>>]>>,
                           offset + 2)

\* A disassemble_instruction that compares the line with the next one.
disassemble_instruction_ahead(ch, offset) ==
    IF offset + 1 >= Len(ch.lines)
    THEN Disassembled("index out of bounds: lines", <<>>, offset)
    ELSE LET head == [offset |-> offset,
                      line |-> IF ch.lines[offset + 2] = ch.lines[offset + 1]
                               THEN <<>> ELSE <<ch.lines[offset + 1]>>]
         IN simple_instruction(OpName(ch.code[offset + 1]), head, offset)

\* disassemble_instruction(chunk, offset, writer): the line written and the
\* offset returned.  chunk.lines[offset] is read before the code byte.
disassemble_instruction(ch, offset) ==
    IF offset >= Len(ch.lines)
    THEN Disassembled("index out of bounds: lines", <<>>, offset)
    ELSE IF offset >= Len(ch.code)
    THEN Disassembled("Index out of bounds", <<>>, offset)
    ELSE LET head == [offset |-> offset,
                      line |-> IF offset > 0
                                  /\ ch.lines[offset + 1] = ch.lines[offset]
                               THEN <<>> ELSE <<ch.lines[offset + 1]>>]
             instruction == ch.code[offset + 1]
         IN
         CASE instruction = OP_CONSTANT ->
                 constant_instruction("OP_CONSTANT", ch, head, offset)
           [] instruction \in {OP_ADD, OP_SUBTRACT, OP_MULTIPLY, OP_DIVIDE,
                               OP_NEGATE, OP_RETURN} ->
                 simple_instruction(OpName(instruction), head, offset)
           [] OTHER ->
                 Disassembled("none",
                              <<[offset |-> offset, line |-> head.line,
                                 name |-> "Unknown opcode",
                                 operand |-> <<instruction>>,
                                 value |-> <<>>]>>,
                              offset + 1)

RECURSIVE disassemble_from(_, _, _)
\* The loop of disassemble_chunk from an offset on.
disassemble_from(ch, offset, lines) ==
    IF offset >= Len(ch.code) THEN [panic |-> "none", lines |-> lines]
    ELSE LET d == disassemble_instruction(ch, offset) IN
         IF d.panic # "none" THEN [panic |-> d.panic, lines |-> lines]
         ELSE disassemble_from(ch, d.next, lines \o d.line)

disassemble_chunk(ch, name) ==
    LET d == disassemble_from(ch, 0, <<>>) IN
    [panic |-> d.panic, header |-> name, lines |-> d.lines]

\* The DEBUG_TRACE block of run: the live stack slots, then the instruction
\* at ip.
trace_block(ch, v) ==
    LET d == disassemble_instruction(ch, v.ip) IN
    [panic |-> d.panic, text |-> <<[stack |-> v.stack, line |-> d.line]>>]

-----------------------------------------------------------------------------
(* The sources the model compiles.                                         *)

SrcAlphabet ==
    {"1", ".", "+", "-", "*", "/", "(", ")", " ", "\n", "#", "\"", "="}

\* Every byte string over SrcAlphabet of at most MaxSrcLen bytes.
ShortSources == UNION {[1..k -> SrcAlphabet] : k \in 0..MaxSrcLen}

ExprLiterals == {"1", "2"}

ExprOperators == {"+", "-", "*", "/"}

\* The expressions of exactly n tokens: a literal, '-' e, '(' e ')' or
\* e op e.
RECURSIVE ExprsOfLen(_)
ExprsOfLen(n) ==
    IF n < 1 THEN {}
    ELSE IF n = 1 THEN {<<l>> : l \in ExprLiterals}
    ELSE {<<"-">> \o e : e \in ExprsOfLen(n - 1)}
         \cup {<<"(">> \o e \o <<")">> : e \in ExprsOfLen(n - 2)}
         \cup UNION {{a \o <<op>> \o b :
                        a \in ExprsOfLen(i), b \in ExprsOfLen(n - 1 - i),
                        op \in ExprOperators} : i \in 1..(n - 2)}

ExprSources == UNION {ExprsOfLen(n) : n \in 1..MaxExprToks}

\* "1+(1+( ... 1))" with n literals: the deepest nesting n constants allow.
RightNested(n) ==
    [i \in 1..(4 * n - 3) |->
        IF i <= 3 * (n - 1)
        THEN CASE i % 3 = 1 -> "1" [] i % 3 = 2 -> "+" [] OTHER -> "("
        ELSE IF i = 3 * (n - 1) + 1 THEN "1" ELSE ")"]

\* The nesting whose constants alone fill the bytes an ip of eight bits can
\* address, the deepest nesting the constants a byte can index allow, and
\* the nesting with one constant more.
LongSources ==
    {RightNested(n) : n \in {(U8_MAX + 1) \div 2, U8_MAX + 1, U8_MAX + 2}}

\* The operators of the rule table that are not arithmetic, each in the
\* smallest expression that uses it.
ComparisonOperators ==
    {<<"=", "=">>, <<"!", "=">>, <<"<">>, <<"<", "=">>, <<">">>, <<">", "=">>}

OperatorSources ==
    {<<"1">> \o op \o <<"1">> : op \in ComparisonOperators} \cup {<<"!", "1">>}

\* The 16 reserved words, each with its token kind.
ReservedWords ==
    {<<<<"a", "n", "d">>, "And">>,
     <<<<"c", "l", "a", "s", "s">>, "Class">>,
     <<<<"e", "l", "s", "e">>, "Else">>,
     <<<<"f", "a", "l", "s", "e">>, "False">>,
     <<<<"f", "o", "r">>, "For">>,
     <<<<"f", "u", "n">>, "Fun">>,
     <<<<"i", "f">>, "If">>,
     <<<<"n", "i", "l">>, "Nil">>,
     <<<<"o", "r">>, "Or">>,
     <<<<"p", "r", "i", "n", "t">>, "Print">>,
     <<<<"r", "e", "t", "u", "r", "n">>, "Return">>,
     <<<<"s", "u", "p", "e", "r">>, "Super">>,
     <<<<"t", "h", "i", "s">>, "This">>,
     <<<<"t", "r", "u", "e">>, "True">>,
     <<<<"v", "a", "r">>, "Var">>,
     <<<<"w", "h", "i", "l", "e">>, "While">>}

Keywords == {k[1] : k \in ReservedWords}

\* The reserved words, their proper prefixes, and the words that differ
\* from a reserved word by one byte more, before or after it, or by
\* another last byte.
WordSources ==
    Keywords
    \cup UNION {{SubSeq(w, 1, n) : n \in 1..Len(w)} : w \in Keywords}
    \cup {w \o <<c>> : w \in Keywords, c \in {"s", "1", "_"}}
    \cup {<<c>> \o w : w \in Keywords, c \in {"a", "t", "_"}}
    \cup {[w EXCEPT ![Len(w)] = "x"] : w \in Keywords}

\* The source of compile_complex_expression_test, with the literals of
\* ExprLiterals.
TestSources == {<<"-", "(", "1", "+", "2", ")", "*", "1">>}

\* "-1+(1+( ... 1))" with one literal more than half the bytes an ip of
\* eight bits can address: NEGATE after the first CONSTANT puts the opcode
\* of a later CONSTANT at offset 255 and its operand at offset 256.
WrapSources == {<<"-">> \o RightNested((U8_MAX + 1) \div 2 + 1)}

Sources ==
    ShortSources \cup ExprSources \cup LongSources \cup OperatorSources
    \cup WordSources \cup TestSources \cup WrapSources

-----------------------------------------------------------------------------
(* The compiler as a machine.  calls holds the calls of the Rust call      *)
(* stack that still have work to do, innermost first, each as a frame      *)
(* naming the function and the place in it where it resumes.               *)

\* A frame keeps what its function still needs: the precedence it was called
\* with, the operator it emits, or the token it expects and its message.
Frame(fn, prec, tt, msg) ==
    CASE fn \in {"parse_precedence.prefix", "parse_precedence.loop",
                 "parse_precedence.infix"} -> [fn |-> fn, prec |-> prec]
      [] fn \in {"unary.emit", "binary.emit"} -> [fn |-> fn, tt |-> tt]
      [] fn = "consume" -> [fn |-> fn, tt |-> tt, msg |-> msg]
      [] OTHER -> [fn |-> fn]

AdvanceFrame == Frame("advance", 0, "None", "")

\* parse_precedence(prec) up to its first statement, the call of advance.
ParsePrecedenceCall(prec) ==
    <<AdvanceFrame, Frame("parse_precedence.prefix", prec, "None", "")>>

\* A compile that does not require the end of the input.
CompileCall_unchecked ==
    <<AdvanceFrame>> \o ParsePrecedenceCall(PREC_ASSIGNMENT)
    \o <<Frame("end_compiler", 0, "None", "")>>

\* The body of compile: advance, expression, consume(Eof), end_compiler.
CompileCall ==
    <<AdvanceFrame>> \o ParsePrecedenceCall(PREC_ASSIGNMENT)
    \o <<Frame("consume", 0, "Eof", "Expect end of expression."),
         Frame("end_compiler", 0, "None", "")>>

\* An emit_byte whose line numbers go on from those of an earlier compile.
emit_byte_carried(ch, p, byte) ==
    write(ch, byte, p.previous.line + Len(first))

\* An emit_byte that takes the line of the token that is not consumed yet.
emit_byte_ahead(ch, p, byte) == write(ch, byte, p.current.line)

emit_byte(ch, p, byte) == write(ch, byte, p.previous.line)

RECURSIVE emit_all(_, _, _)
emit_all(ch, p, bytes) ==
    IF bytes = <<>> THEN ch
    ELSE emit_all(emit_byte(ch, p, Head(bytes)), p, Tail(bytes))

\* An emit_return that emits NEGATE, the opcode before RETURN in OpCode.
emit_return_negate(ch, p) == emit_all(ch, p, <<OP_NEGATE>>)

emit_return(ch, p) == emit_all(ch, p, <<OP_RETURN>>)

\* The history of the writes of emit_all.
Writes(p, bytes) == [i \in 1..Len(bytes) |-> <<bytes[i], p.previous.line>>]

\* main has not been entered: the compiler and the VM are used directly.
MainNone == [pc |-> "none", argc |-> 0, readable |-> FALSE, exit |-> <<>>]

InitCompile ==
    /\ main = MainNone
    /\ source \in Sources
    /\ scanner = ScannerNew
    /\ parser = ParserNew
    /\ diag = <<>>
    /\ chunk = ChunkNew
    /\ calls = CompileCall
    /\ compiled = <<>>
    /\ vm = VMNew
    /\ out = <<>>
    /\ result = "none"
    /\ phase = "compile"
    /\ panic = "none"
    /\ written = <<>>
    /\ DEBUG_TRACE \in BOOLEAN
    /\ trace = <<>>
    /\ listing = <<>>
    /\ first = <<>>

\* A new chunk written to directly, as the tests of chunk.rs do.
InitApi ==
    /\ main = MainNone
    /\ source = <<>>
    /\ scanner = ScannerNew
    /\ parser = ParserNew
    /\ diag = <<>>
    /\ chunk = ChunkNew
    /\ calls = <<>>
    /\ compiled = <<>>
    /\ vm = VMNew
    /\ out = <<>>
    /\ result = "none"
    /\ phase = "api"
    /\ panic = "none"
    /\ written = <<>>
    /\ DEBUG_TRACE \in BOOLEAN
    /\ trace = <<>>
    /\ listing = <<>>
    /\ first = <<>>

Init == InitCompile \/ InitApi

At(fn) == phase = "compile" /\ calls # <<>> /\ Head(calls).fn = fn

AtAdvance ==
    phase = "compile" /\ calls # <<>>
    /\ Head(calls).fn \in {"advance", "advance.retry"}

\* advance stores current in previous on entry, not when its loop retries.
AdvanceParser ==
    IF Head(calls).fn = "advance"
    THEN [parser EXCEPT !.previous = parser.current]
    ELSE parser

Scanned == scan_token(source, scanner)

LexicalErrors == {"UnexpectedChar", "UnterminatedString"}

LexicalMessage(kind) ==
    IF kind = "UnexpectedChar" THEN "Unexpected character"
    ELSE "Unterminated string"

\* advance: scan_token returned a token.
AdvanceToken ==
    /\ AtAdvance
    /\ Scanned.kind = "Token"
    /\ parser' = [AdvanceParser EXCEPT !.current = Scanned.token]
    /\ scanner' = Scanned.sc
    /\ calls' = Tail(calls)
    /\ UNCHANGED <<main, DEBUG_TRACE, trace, listing, first>>
    /\ UNCHANGED <<source, diag, chunk, compiled, vm, out, result, phase,
                   panic, written>>

\* advance: scan_token returned an error, error_at_current reports it at
\* the current token and the loop scans again.
AdvanceError ==
    /\ AtAdvance
    /\ Scanned.kind \in LexicalErrors
    /\ AdvanceParser.current # NoToken
    /\ LET e == error_at(AdvanceParser, diag, source, AdvanceParser.current,
                         LexicalMessage(Scanned.kind))
       IN parser' = e.parser /\ diag' = e.diag
    /\ scanner' = Scanned.sc
    /\ calls' = <<Frame("advance.retry", 0, "None", "")>> \o Tail(calls)
    /\ UNCHANGED <<main, DEBUG_TRACE, trace, listing, first>>
    /\ UNCHANGED <<source, chunk, compiled, vm, out, result, phase, panic,
                   written>>

\* advance: scan_token returned an error before any token was scanned:
\* error_at_current unwraps a current that is None.
AdvanceErrorNoCurrent ==
    /\ AtAdvance
    /\ Scanned.kind \in LexicalErrors
    /\ AdvanceParser.current = NoToken
    /\ parser' = AdvanceParser
    /\ scanner' = Scanned.sc
    /\ phase' = "panic"
    /\ panic' = UnwrapNone
    /\ UNCHANGED <<main, DEBUG_TRACE, trace, listing, first>>
    /\ UNCHANGED <<source, diag, chunk, calls, compiled, vm, out, result,
                   written>>

\* advance: scan_token indexed the source past its end.
AdvanceScanPanic ==
    /\ AtAdvance
    /\ Scanned.kind = "Panic"
    /\ parser' = AdvanceParser
    /\ scanner' = Scanned.sc
    /\ phase' = "panic"
    /\ panic' = OutOfBounds
    /\ UNCHANGED <<main, DEBUG_TRACE, trace, listing, first>>
    /\ UNCHANGED <<source, diag, chunk, calls, compiled, vm, out, result,
                   written>>

PrefixRule == get_rule(parser.previous.token_type).prefix

LoopFrame == Frame("parse_precedence.loop", Head(calls).prec, "None", "")

\* parse_precedence: the consumed token has no prefix rule.
PrefixNone ==
    /\ At("parse_precedence.prefix")
    /\ PrefixRule = "none"
    /\ LET e == error_at(parser, diag, source, parser.previous,
                         "Expect expression.")
       IN parser' = e.parser /\ diag' = e.diag
    /\ calls' = Tail(calls)
    /\ UNCHANGED <<main, DEBUG_TRACE, trace, listing, first>>
    /\ UNCHANGED <<source, scanner, chunk, compiled, vm, out, result, phase,
                   panic, written>>

\* parse_precedence calls number: emit_constant of the lexeme's value.
PrefixNumber ==
    /\ At("parse_precedence.prefix")
    /\ PrefixRule = "number"
    /\ LET value == parse_f64(get_lexeme(source, parser.previous))
           m == make_constant(chunk, parser, diag, source, value)
           bytes == <<OP_CONSTANT, m.byte>>
       IN /\ chunk' = emit_all(m.chunk, m.parser, bytes)
          /\ written' = written \o Writes(m.parser, bytes)
          /\ parser' = m.parser
          /\ diag' = m.diag
    /\ calls' = <<LoopFrame>> \o Tail(calls)
    /\ UNCHANGED <<main, DEBUG_TRACE, trace, listing, first>>
    /\ UNCHANGED <<source, scanner, compiled, vm, out, result, phase, panic>>

\* parse_precedence calls grouping: expression, then consume(RightParen).
PrefixGrouping ==
    /\ At("parse_precedence.prefix")
    /\ PrefixRule = "grouping"
    /\ calls' = ParsePrecedenceCall(PREC_ASSIGNMENT)
                \o <<Frame("consume", 0, "RightParen",
                           "Expect ')' after expression."),
                     LoopFrame>>
                \o Tail(calls)
    /\ UNCHANGED <<main, DEBUG_TRACE, trace, listing, first>>
    /\ UNCHANGED <<source, scanner, parser, diag, chunk, compiled, vm, out,
                   result, phase, panic, written>>

\* parse_precedence calls unary: the operand at Unary precedence, then the
\* operator's byte.
PrefixUnary ==
    /\ At("parse_precedence.prefix")
    /\ PrefixRule = "unary"
    /\ calls' = ParsePrecedenceCall(PREC_UNARY)
                \o <<Frame("unary.emit", 0, parser.previous.token_type, ""),
                     LoopFrame>>
                \o Tail(calls)
    /\ UNCHANGED <<main, DEBUG_TRACE, trace, listing, first>>
    /\ UNCHANGED <<source, scanner, parser, diag, chunk, compiled, vm, out,
                   result, phase, panic, written>>

UnaryEmit ==
    /\ At("unary.emit")
    /\ LET bytes == unary_opcode(Head(calls).tt)
       IN /\ chunk' = emit_all(chunk, parser, bytes)
          /\ written' = written \o Writes(parser, bytes)
    /\ calls' = Tail(calls)
    /\ UNCHANGED <<main, DEBUG_TRACE, trace, listing, first>>
    /\ UNCHANGED <<source, scanner, parser, diag, compiled, vm, out, result,
                   phase, panic>>

\* The infix loop of parse_precedence ends: the current token binds less
\* tightly than asked.
InfixLoopBreak ==
    /\ At("parse_precedence.loop")
    /\ Head(calls).prec > get_rule(parser.current.token_type).precedence
    /\ calls' = Tail(calls)
    /\ UNCHANGED <<main, DEBUG_TRACE, trace, listing, first>>
    /\ UNCHANGED <<source, scanner, parser, diag, chunk, compiled, vm, out,
                   result, phase, panic, written>>

\* The infix loop goes on: advance, then the infix rule.
InfixLoopAdvance ==
    /\ At("parse_precedence.loop")
    /\ ~(Head(calls).prec > get_rule(parser.current.token_type).precedence)
    /\ calls' = <<AdvanceFrame,
                  Frame("parse_precedence.infix", Head(calls).prec, "None", "")>>
                \o Tail(calls)
    /\ UNCHANGED <<main, DEBUG_TRACE, trace, listing, first>>
    /\ UNCHANGED <<source, scanner, parser, diag, chunk, compiled, vm, out,
                   result, phase, panic, written>>

\* infix_rule.unwrap()(self), which is binary for every rule that has one:
\* the right operand one level above the operator's, then the opcode.
Infix ==
    /\ At("parse_precedence.infix")
    /\ LET operator_type == parser.previous.token_type
           rule == get_rule(operator_type)
       IN IF rule.infix = "none"
          THEN /\ phase' = "panic"
               /\ panic' = UnwrapNone
               /\ calls' = calls
          ELSE IF rule.precedence + 1 > PREC_PRIMARY
          THEN /\ phase' = "panic"
               /\ panic' = "Invalid precedence"
               /\ calls' = calls
          ELSE /\ calls' = ParsePrecedenceCall(rule.precedence + 1)
                           \o <<Frame("binary.emit", 0, operator_type, ""),
                                Frame("parse_precedence.loop", Head(calls).prec,
                                      "None", "")>>
                           \o Tail(calls)
               /\ UNCHANGED <<phase, panic>>
    /\ UNCHANGED <<main, DEBUG_TRACE, trace, listing, first>>
    /\ UNCHANGED <<source, scanner, parser, diag, chunk, compiled, vm, out,
                   result, written>>

BinaryEmit ==
    /\ At("binary.emit")
    /\ LET bytes == binary_opcode(Head(calls).tt)
       IN /\ chunk' = emit_all(chunk, parser, bytes)
          /\ written' = written \o Writes(parser, bytes)
    /\ calls' = Tail(calls)
    /\ UNCHANGED <<main, DEBUG_TRACE, trace, listing, first>>
    /\ UNCHANGED <<source, scanner, parser, diag, compiled, vm, out, result,
                   phase, panic>>

\* consume: the current token is the expected one, advance over it.
ConsumeMatch ==
    /\ At("consume")
    /\ parser.current.token_type = Head(calls).tt
    /\ calls' = <<AdvanceFrame>> \o Tail(calls)
    /\ UNCHANGED <<main, DEBUG_TRACE, trace, listing, first>>
    /\ UNCHANGED <<source, scanner, parser, diag, chunk, compiled, vm, out,
                   result, phase, panic, written>>

\* consume: any other token is reported by error_at_current.
ConsumeMismatch ==
    /\ At("consume")
    /\ parser.current.token_type # Head(calls).tt
    /\ LET e == error_at(parser, diag, source, parser.current, Head(calls).msg)
       IN parser' = e.parser /\ diag' = e.diag
    /\ calls' = Tail(calls)
    /\ UNCHANGED <<main, DEBUG_TRACE, trace, listing, first>>
    /\ UNCHANGED <<source, scanner, chunk, compiled, vm, out, result, phase,
                   panic, written>>

\* end_compiler (DEBUG_PRINT_CODE off) and the return of compile.
EndCompiler ==
    /\ At("end_compiler")
    /\ chunk' = emit_return(chunk, parser)
    /\ written' = written \o Writes(parser, <<OP_RETURN>>)
    /\ compiled' = <<~parser.had_error>>
    /\ calls' = Tail(calls)
    /\ phase' = "compiled"
    /\ UNCHANGED <<main, DEBUG_TRACE, trace, listing, first>>
    /\ UNCHANGED <<source, scanner, parser, diag, vm, out, result, panic>>

-----------------------------------------------------------------------------
(* The virtual machine as a machine.                                       *)

\* VM::interpret(chunk, writer): the chunk is taken as it is and run.
Interpret ==
    /\ phase = "compiled"
    /\ vm' = [vm EXCEPT !.ip = 0]
    /\ phase' = "run"
    /\ UNCHANGED <<main, DEBUG_TRACE, trace, listing, first>>
    /\ UNCHANGED <<source, scanner, parser, diag, chunk, calls, compiled, out,
                   result, panic, written>>

\* What the trace block does at the head of this pass of the loop.
TraceBlock ==
    IF DEBUG_TRACE THEN trace_block(chunk, vm)
    ELSE [panic |-> "none", text |-> trace]

\* One pass of the loop of run that goes on to the next.
RunInstruction ==
    /\ phase = "run"
    /\ TraceBlock.panic = "none"
    /\ \E o \in run_step(chunk, vm) :
          /\ o.status = "running"
          /\ vm' = o.vm
    /\ trace' = TraceBlock.text
    /\ UNCHANGED <<main, DEBUG_TRACE, listing, first, source, scanner, parser,
                   diag, chunk, calls, compiled, out, result, phase, panic,
                   written>>

\* The pass that executes RETURN: the value is written and run returns.
RunReturn ==
    /\ phase = "run"
    /\ TraceBlock.panic = "none"
    /\ \E o \in run_step(chunk, vm) :
          /\ o.status = "InterpretOk"
          /\ vm' = o.vm
          /\ out' = out \o o.emitted
          /\ result' = o.status
    /\ trace' = TraceBlock.text
    /\ phase' = "done"
    /\ UNCHANGED <<main, DEBUG_TRACE, listing, first, source, scanner, parser,
                   diag, chunk, calls, compiled, panic, written>>

\* A pass that panics, in the trace block or in the instruction.
RunPanic ==
    /\ phase = "run"
    /\ IF TraceBlock.panic # "none"
       THEN /\ vm' = vm
            /\ panic' = TraceBlock.panic
            /\ trace' = trace
       ELSE /\ \E o \in run_step(chunk, vm) :
                  /\ o.status \notin {"running", "InterpretOk"}
                  /\ vm' = o.vm
                  /\ panic' = o.status
            /\ trace' = TraceBlock.text
    /\ phase' = "panic"
    /\ UNCHANGED <<main, DEBUG_TRACE, listing, first, source, scanner, parser,
                   diag, chunk, calls, compiled, out, result, written>>

-----------------------------------------------------------------------------
(* Chunk::write and Chunk::add_constant called directly on a new chunk.    *)

ApiBytes == {OP_CONSTANT, OP_RETURN}

ApiLines == {123, 124}

ApiValues == {Num(1, 6, 5), Num(1, 43, 10)}

ApiCalls == Len(chunk.code) + Len(chunk.constants)

ApiWrite ==
    /\ phase = "api"
    /\ ApiCalls < MaxApiCalls
    /\ \E byte \in ApiBytes, line \in ApiLines :
          /\ chunk' = write(chunk, byte, line)
          /\ written' = Append(written, <<byte, line>>)
    /\ UNCHANGED <<main, DEBUG_TRACE, trace, listing, first>>
    /\ UNCHANGED <<source, scanner, parser, diag, calls, compiled, vm, out,
                   result, phase, panic>>

ApiAddConstant ==
    /\ phase = "api"
    /\ ApiCalls < MaxApiCalls
    /\ \E value \in ApiValues : chunk' = add_constant(chunk, value).chunk
    /\ UNCHANGED <<main, DEBUG_TRACE, trace, listing, first>>
    /\ UNCHANGED <<source, scanner, parser, diag, calls, compiled, vm, out,
                   result, phase, panic, written>>

\* VM::interpret on a chunk written by hand, as the tests of vm.rs do.
ApiInterpret ==
    /\ phase = "api"
    /\ vm' = [vm EXCEPT !.ip = 0]
    /\ phase' = "run"
    /\ UNCHANGED <<main, DEBUG_TRACE, trace, listing, first, source, scanner,
                   parser, diag, chunk, calls, compiled, out, result, panic,
                   written>>

\* disassemble_chunk on a chunk written by hand, as the tests of debug.rs do.
ApiDisassemble ==
    /\ phase = "api"
    /\ LET d == disassemble_chunk(chunk, "test chunk") IN
          /\ listing' = <<[header |-> d.header, lines |-> d.lines]>>
          /\ panic' = d.panic
          /\ phase' = IF d.panic = "none" THEN "listed" ELSE "panic"
    /\ UNCHANGED <<main, DEBUG_TRACE, trace, first, source, scanner, parser,
                   diag, chunk, calls, compiled, vm, out, result, written>>

Next ==
    \/ AdvanceToken
    \/ AdvanceError
    \/ AdvanceErrorNoCurrent
    \/ AdvanceScanPanic
    \/ PrefixNone
    \/ PrefixNumber
    \/ PrefixGrouping
    \/ PrefixUnary
    \/ UnaryEmit
    \/ InfixLoopBreak
    \/ InfixLoopAdvance
    \/ Infix
    \/ BinaryEmit
    \/ ConsumeMatch
    \/ ConsumeMismatch
    \/ EndCompiler
    \/ Interpret
    \/ RunInstruction
    \/ RunReturn
    \/ RunPanic
    \/ ApiWrite
    \/ ApiAddConstant
    \/ ApiInterpret
    \/ ApiDisassemble

Spec == Init /\ [][Next]_vars

\* The source is compiled once more: Compiler::new and Chunk::new again,
\* with a new writer, then compile.  The first chunk and boolean are kept.
Recompile ==
    /\ phase = "compiled"
    /\ first = <<>>
    /\ first' = <<[chunk |-> chunk, compiled |-> compiled]>>
    /\ scanner' = ScannerNew
    /\ parser' = ParserNew
    /\ diag' = <<>>
    /\ chunk' = ChunkNew
    /\ calls' = CompileCall
    /\ compiled' = <<>>
    /\ written' = <<>>
    /\ phase' = "compile"
    /\ UNCHANGED <<main, DEBUG_TRACE, trace, listing, source, vm, out, result,
                   panic>>

NextTwice ==
    \/ AdvanceToken
    \/ AdvanceError
    \/ AdvanceErrorNoCurrent
    \/ AdvanceScanPanic
    \/ PrefixNone
    \/ PrefixNumber
    \/ PrefixGrouping
    \/ PrefixUnary
    \/ UnaryEmit
    \/ InfixLoopBreak
    \/ InfixLoopAdvance
    \/ Infix
    \/ BinaryEmit
    \/ ConsumeMatch
    \/ ConsumeMismatch
    \/ EndCompiler
    \/ Recompile

\* Every source is compiled twice.
TwiceSpec == InitCompile /\ [][NextTwice]_vars

-----------------------------------------------------------------------------
(* The process (main.rs).  main calls interpret(source, writer) and         *)
(* compares what it returns with InterpretCompileError and                  *)
(* InterpretRuntimeError; the interpret of vm.rs takes a chunk and returns  *)
(* InterpretOk only, so the interpret main calls is modelled from the       *)
(* specification: compile, CompileError when the compile fails, otherwise   *)
(* the run of the chunk.                                                    *)

\* Most arguments of a command line, the name of the program included.
MaxArgs == 4

\* The process before main: the arguments, and whether fs::read_to_string
\* of the path will succeed and with what contents.
InitMain ==
    /\ \E argc \in 1..MaxArgs, readable \in BOOLEAN :
          /\ main = [pc |-> "main", argc |-> argc, readable |-> readable,
                     exit |-> <<>>]
          /\ IF argc = 2 /\ readable THEN source \in ShortSources
             ELSE source = <<>>
    /\ scanner = ScannerNew
    /\ parser = ParserNew
    /\ diag = <<>>
    /\ chunk = ChunkNew
    /\ calls = <<>>
    /\ compiled = <<>>
    /\ vm = VMNew
    /\ out = <<>>
    /\ result = "none"
    /\ phase = "main"
    /\ panic = "none"
    /\ written = <<>>
    /\ DEBUG_TRACE = FALSE
    /\ trace = <<>>
    /\ listing = <<>>
    /\ first = <<>>

\* main with more than one argument after the program name: exit(64).
MainUsage ==
    /\ main.pc = "main"
    /\ main.argc \notin {1, 2}
    /\ main' = [main EXCEPT !.pc = "exited", !.exit = <<64>>]
    /\ UNCHANGED <<source, scanner, parser, diag, chunk, calls, compiled, vm,
                   out, result, phase, panic, written, DEBUG_TRACE, trace,
                   listing, first>>

\* main without an argument: the REPL is entered (its loop is not followed).
MainRepl ==
    /\ main.pc = "main"
    /\ main.argc = 1
    /\ main' = [main EXCEPT !.pc = "repl"]
    /\ UNCHANGED <<source, scanner, parser, diag, chunk, calls, compiled, vm,
                   out, result, phase, panic, written, DEBUG_TRACE, trace,
                   listing, first>>

\* read_file fails: exit(74).
ReadFileError ==
    /\ main.pc = "main"
    /\ main.argc = 2
    /\ ~main.readable
    /\ main' = [main EXCEPT !.pc = "exited", !.exit = <<74>>]
    /\ UNCHANGED <<source, scanner, parser, diag, chunk, calls, compiled, vm,
                   out, result, phase, panic, written, DEBUG_TRACE, trace,
                   listing, first>>

\* read_file returns the contents and run_file calls interpret on them.
RunFile ==
    /\ main.pc = "main"
    /\ main.argc = 2
    /\ main.readable
    /\ main' = [main EXCEPT !.pc = "run_file"]
    /\ calls' = CompileCall
    /\ phase' = "compile"
    /\ UNCHANGED <<source, scanner, parser, diag, chunk, compiled, vm, out,
                   result, panic, written, DEBUG_TRACE, trace, listing, first>>

RECURSIVE RunToEnd(_, _)
\* The outcomes run can end with from a state of the VM.
RunToEnd(ch, v) ==
    UNION {IF o.status = "running" THEN RunToEnd(ch, o.vm) ELSE {o}
           : o \in run_step(ch, v)}

\* What interpret(source, writer) does once the source is compiled.
InterpretSource ==
    /\ main.pc = "run_file"
    /\ phase = "compiled"
    /\ IF compiled = <<FALSE>>
       THEN /\ result' = "InterpretCompileError"
            /\ phase' = "done"
            /\ UNCHANGED <<vm, out, panic>>
       ELSE \E o \in RunToEnd(chunk, [vm EXCEPT !.ip = 0]) :
               /\ vm' = o.vm
               /\ out' = out \o o.emitted
               /\ IF o.status = "InterpretOk"
                  THEN result' = o.status /\ phase' = "done" /\ panic' = panic
                  ELSE result' = result /\ phase' = "panic"
                       /\ panic' = o.status
    /\ UNCHANGED <<main, source, scanner, parser, diag, chunk, calls, compiled,
                   written, DEBUG_TRACE, trace, listing, first>>

\* An exit code that takes the two errors for each other.
run_file_exit_swapped(r) ==
    IF r = "InterpretCompileError" THEN <<70>>
    ELSE IF r = "InterpretRuntimeError" THEN <<65>>
    ELSE <<0>>

\* run_file after interpret: exit(65), exit(70), or the return from main.
run_file_exit(r) ==
    IF r = "InterpretCompileError" THEN <<65>>
    ELSE IF r = "InterpretRuntimeError" THEN <<70>>
    ELSE <<0>>

RunFileExit ==
    /\ main.pc = "run_file"
    /\ phase = "done"
    /\ main' = [main EXCEPT !.pc = "exited", !.exit = run_file_exit(result)]
    /\ UNCHANGED <<source, scanner, parser, diag, chunk, calls, compiled, vm,
                   out, result, phase, panic, written, DEBUG_TRACE, trace,
                   listing, first>>

NextMain ==
    \/ MainUsage
    \/ MainRepl
    \/ ReadFileError
    \/ RunFile
    \/ AdvanceToken
    \/ AdvanceError
    \/ AdvanceErrorNoCurrent
    \/ AdvanceScanPanic
    \/ PrefixNone
    \/ PrefixNumber
    \/ PrefixGrouping
    \/ PrefixUnary
    \/ UnaryEmit
    \/ InfixLoopBreak
    \/ InfixLoopAdvance
    \/ Infix
    \/ BinaryEmit
    \/ ConsumeMatch
    \/ ConsumeMismatch
    \/ EndCompiler
    \/ InterpretSource
    \/ RunFileExit

\* The process from its command line to its exit.
MainSpec == InitMain /\ [][NextMain]_vars

-----------------------------------------------------------------------------
(* The REPL (main.rs): one VM for all the lines.  Each line is compiled    *)
(* into a new chunk by a new compiler, and VM::interpret is called with    *)
(* that chunk on the VM as the call before left it.                        *)

MaxLines == 2

\* The lines that are typed: the sources of at most two bytes, and each
\* operator of the rule table that is not arithmetic between two literals.
ReplSources == {s \in Sources : Len(s) <= 2} \cup OperatorSources

InitRepl == InitMain /\ main.argc = 1

\* repl reads a line, while fewer than MaxLines results were written.
ReplRead ==
    /\ main.pc = "repl"
    /\ phase \in {"main", "done"}
    /\ Len(out) < MaxLines
    /\ source' \in ReplSources
    /\ scanner' = ScannerNew
    /\ parser' = ParserNew
    /\ chunk' = ChunkNew
    /\ calls' = CompileCall
    /\ compiled' = <<>>
    /\ written' = <<>>
    /\ phase' = "compile"
    /\ UNCHANGED <<main, diag, vm, out, result, panic, DEBUG_TRACE, trace,
                   listing, first>>

\* VM::interpret(chunk, writer) as one step: ip = 0, then run to its
\* return or its panic, on the stack the VM has.
ReplInterpret ==
    /\ main.pc = "repl"
    /\ phase = "compiled"
    /\ \E o \in RunToEnd(chunk, [vm EXCEPT !.ip = 0]) :
          /\ vm' = o.vm
          /\ out' = out \o o.emitted
          /\ IF o.status = "InterpretOk"
             THEN result' = o.status /\ phase' = "done" /\ panic' = panic
             ELSE result' = result /\ phase' = "panic" /\ panic' = o.status
    /\ UNCHANGED <<main, source, scanner, parser, diag, chunk, calls, compiled,
                   written, DEBUG_TRACE, trace, listing, first>>

NextRepl ==
    \/ MainRepl
    \/ ReplRead
    \/ AdvanceToken
    \/ AdvanceError
    \/ AdvanceErrorNoCurrent
    \/ AdvanceScanPanic
    \/ PrefixNone
    \/ PrefixNumber
    \/ PrefixGrouping
    \/ PrefixUnary
    \/ UnaryEmit
    \/ InfixLoopBreak
    \/ InfixLoopAdvance
    \/ Infix
    \/ BinaryEmit
    \/ ConsumeMatch
    \/ ConsumeMismatch
    \/ EndCompiler
    \/ ReplInterpret

\* A REPL session of at most MaxLines results.
ReplSpec == InitRepl /\ [][NextRepl]_vars

\* The compiler never stops by itself and the next step is always taken.
FairSpec == Spec /\ WF_vars(Next)

-----------------------------------------------------------------------------
(* A reference evaluator for expressions, by the grammar                   *)
(*   expr ::= term (('+' | '-') term)*      term ::= unary (('*' | '/') unary)* *)
(*   unary ::= '-' unary | primary          primary ::= digit | '(' expr ')'    *)
(* over a source whose every byte is one token.  A result is the value     *)
(* and the position after the part read, or a failure.                     *)

RefFail == [ok |-> FALSE, val |-> NaN, pos |-> 0]

RefAt(s, i) == IF i <= Len(s) THEN s[i] ELSE NUL

RECURSIVE RefExpr(_, _), RefExprRest(_, _), RefTerm(_, _), RefTermRest(_, _),
          RefUnary(_, _), RefPrimary(_, _)

RefPrimary(s, i) ==
    IF RefAt(s, i) \in Digits
    THEN [ok |-> TRUE, val |-> Num(1, DigitValue(s[i]), 1), pos |-> i + 1]
    ELSE IF RefAt(s, i) = "("
    THEN LET e == RefExpr(s, i + 1) IN
         IF e.ok /\ RefAt(s, e.pos) = ")" THEN [e EXCEPT !.pos = @ + 1]
         ELSE RefFail
    ELSE RefFail

RefUnary(s, i) ==
    IF RefAt(s, i) = "-"
    THEN LET u == RefUnary(s, i + 1) IN
         IF u.ok THEN [u EXCEPT !.val = Flip(@)] ELSE RefFail
    ELSE RefPrimary(s, i)

\* acc is the term read so far; '*' and '/' group to the left.
RefTermRest(s, acc) ==
    IF acc.ok /\ RefAt(s, acc.pos) \in {"*", "/"}
    THEN LET u == RefUnary(s, acc.pos + 1) IN
         IF u.ok
         THEN RefTermRest(s, [u EXCEPT !.val =
                    IF s[acc.pos] = "*" THEN Mul(acc.val, @)
                    ELSE Div(acc.val, @)])
         ELSE RefFail
    ELSE acc

RefTerm(s, i) == RefTermRest(s, RefUnary(s, i))

\* acc is the expression read so far; '+' and '-' group to the left.
RefExprRest(s, acc) ==
    IF acc.ok /\ RefAt(s, acc.pos) \in {"+", "-"}
    THEN LET t == RefTerm(s, acc.pos + 1) IN
         IF t.ok
         THEN RefExprRest(s, [t EXCEPT !.val =
                    IF s[acc.pos] = "+" THEN Add(acc.val, @)
                    ELSE Sub(acc.val, @)])
         ELSE RefFail
    ELSE acc

RefExpr(s, i) == RefExprRest(s, RefTerm(s, i))

RefEval(s) ==
    LET e == RefExpr(s, 1) IN
    IF e.ok /\ e.pos = Len(s) + 1 THEN e ELSE RefFail

-----------------------------------------------------------------------------
(* Claims.                                                                 *)

\* C1: for every well-formed expression source of at most MaxExprToks
\* tokens, the compile succeeds, the run of its chunk never panics, and
\* what the run has emitted when it returns is exactly the value of the
\* reference evaluator (left-associative, * / above + -, unary - above
\* both).
C1_ArithmeticMatchesReference ==
    source \in ExprSources /\ phase # "api" =>
        /\ compiled \in {<<>>, <<TRUE>>}
        /\ phase # "panic"
        /\ phase \in {"compiled", "run"} => out = <<>>
        /\ phase = "done" =>
              /\ RefEval(source).ok
              /\ result = "InterpretOk"
              /\ out = <<[value |-> RefEval(source).val]>>

\* C1 witness: "1+2*2" has been compiled and run and 5 was emitted.
C1_Witness ==
    /\ source = <<"1", "+", "2", "*", "2">>
    /\ phase = "done"
    /\ out = <<[value |-> Num(1, 5, 1)]>>

\* C2 (as claimed): interpret compiles the source first; when the compile
\* fails it returns CompileError and executes nothing: the run loop is not
\* entered, the stack and ip are untouched and nothing is emitted.
C2_CompileErrorWithoutRun ==
    compiled = <<FALSE>> =>
        /\ phase \in {"compiled", "done"}
        /\ result \in {"none", "InterpretCompileError"}
        /\ vm = VMNew
        /\ out = <<>>

\* C3: had_error starts false, is never reset once set, and compile returns
\* its negation, which is true exactly when no diagnostic was written.
C3_SuccessIffNoDiagnostic ==
    /\ parser.had_error = FALSE
    /\ [](compiled # <<>> =>
            /\ compiled = <<~parser.had_error>>
            /\ compiled = <<diag = <<>>>>)
    /\ [][parser.had_error => parser'.had_error]_vars

\* C3 witness: compile returned false after one diagnostic for "1+".
C3_Witness ==
    /\ source = <<"1", "+">>
    /\ compiled = <<FALSE>>
    /\ parser.had_error
    /\ Len(diag) = 1

TooManyConstants == "Too many constants in one chunk."

\* C4 (as claimed): a chunk of a successful compile never holds more than
\* 255 constants, the 256th being refused.
C4_AtMost255Constants ==
    compiled = <<TRUE>> => Len(chunk.constants) <= U8_MAX

\* C4 (amended): the diagnostic is raised when the 257th constant is added,
\* never before; the compile then returns false, so a chunk of a successful
\* compile holds at most 256 constants.
C4_AtMost256Constants ==
    /\ [](/\ compiled = <<TRUE>> => Len(chunk.constants) <= U8_MAX + 1
          /\ Len(chunk.constants) > U8_MAX + 1 => parser.had_error
          /\ \A i \in 1..Len(diag) :
                diag[i].message = TooManyConstants
                    => Len(chunk.constants) > U8_MAX + 1)
    /\ [][/\ Len(chunk.constants) = U8_MAX + 1
          /\ Len(chunk'.constants) = U8_MAX + 2
          /\ ~parser.panic_mode
          => /\ Len(diag') = Len(diag) + 1
             /\ diag'[Len(diag')].message = TooManyConstants
             /\ parser'.had_error]_vars

\* C4 witness: the compile of 257 literals returned false with that
\* diagnostic.
C4_Witness ==
    /\ compiled = <<FALSE>>
    /\ Len(chunk.constants) = U8_MAX + 2
    /\ Len(diag) = 1
    /\ diag[1].message = TooManyConstants

\* C5: in every state, of a compile or of direct calls on a new chunk,
\* lines has one entry per byte of code, and the i-th entry is the line
\* passed with the write of the i-th byte.
C5_LinesParallelCode ==
    /\ Len(chunk.lines) = Len(chunk.code)
    /\ Len(written) = Len(chunk.code)
    /\ \A i \in 1..Len(written) :
          chunk.code[i] = written[i][1] /\ chunk.lines[i] = written[i][2]

\* C5 witness: "1\n" compiled: CONSTANT 0 on line 1, RETURN on line 2.
C5_Witness ==
    /\ compiled = <<TRUE>>
    /\ chunk.code = <<OP_CONSTANT, 0, OP_RETURN>>
    /\ chunk.lines = <<1, 1, 2>>

\* C6 (as claimed): while the chunk of a successful compile runs,
\* 0 <= stack_top <= 256, no pop is executed at stack_top = 0 and no push
\* at stack_top = 256.
C6_StackWithinBounds ==
    compiled = <<TRUE>> =>
        /\ vm.stack_top \in 0..STACK_MAX
        /\ panic \notin {"index out of bounds: the len is 256",
                         "Stack index out of bounds"}

\* Whether every CONSTANT of code[i..], read at instruction boundaries,
\* has an operand that indexes a pool of n constants.
RECURSIVE OperandsValid(_, _, _)
OperandsValid(code, n, i) ==
    IF i > Len(code) THEN TRUE
    ELSE IF code[i] = OP_CONSTANT
    THEN i + 1 <= Len(code) /\ code[i + 1] < n /\ OperandsValid(code, n, i + 2)
    ELSE OperandsValid(code, n, i + 1)

\* C7: in every chunk compile has returned, with true or with false, each
\* CONSTANT has an operand byte below constants.len(), and the run of the
\* chunk never reads a constant that is not there.
C7_ConstantOperandsValid ==
    compiled # <<>> =>
        /\ OperandsValid(chunk.code, Len(chunk.constants), 1)
        /\ panic # "index out of bounds: constants"

\* C7 witness: compile has returned the chunk of 257 literals, whose last
\* two CONSTANTs have the operands 255 and 0.
C7_Witness ==
    /\ compiled = <<FALSE>>
    /\ Len(chunk.constants) = U8_MAX + 2
    /\ chunk.code[2 * (U8_MAX + 1)] = U8_MAX
    /\ chunk.code[2 * (U8_MAX + 2)] = 0

\* C8 (as claimed): every scan_token call returns a token or one of the
\* two lexical errors, and reads no byte at or past the source's length.
C8_ScanTokenReturns ==
    AtAdvance => Scanned.kind \in {"Token"} \cup LexicalErrors

\* C9 (as claimed): every lexical error scan_token returns to advance is
\* turned into a diagnostic with had_error set, and never into a panic.
C9_LexicalErrorsRecovered ==
    [][AtAdvance /\ Scanned.kind \in LexicalErrors =>
          /\ phase' = "compile"
          /\ parser'.had_error
          /\ diag' # <<>>]_vars

\* C10: a scan_token call that returns a lexical error has moved the
\* scanner on by at least one byte; every advance over a token other than
\* end of input leaves a current token that starts further on; and every
\* compile ends.
C10_CompileTerminates ==
    /\ [][AtAdvance /\ Scanned.kind \in LexicalErrors
          => scanner'.current > scanner.current]_vars
    /\ [][AdvanceToken /\ parser.current.token_type \notin {"None", "Eof"}
          => parser'.current.start > parser.current.start]_vars
    /\ <>(phase # "compile")

\* C10 witness: "1#" was compiled: the error was reported, the scan went on
\* and compile returned.
C10_Witness ==
    /\ source = <<"1", "#">>
    /\ compiled = <<FALSE>>
    /\ Len(diag) = 1
    /\ diag[1].message = "Unexpected character"
    /\ scanner.current = 2

\* The length of the instruction whose opcode is byte.
InstructionLength(byte) == IF byte = OP_CONSTANT THEN 2 ELSE 1

\* C11 (as claimed): while the chunk of a successful compile runs, every
\* pass of the loop moves ip on by exactly the length of the instruction at
\* ip, ip never passes the length of the code, and no pass panics.
C11_IpTracksOffset ==
    [][compiled = <<TRUE>> /\ phase = "run" =>
          /\ phase' \in {"run", "done"}
          /\ vm.ip < Len(chunk.code)
          /\ vm'.ip = vm.ip + InstructionLength(chunk.code[vm.ip + 1])
          /\ vm'.ip <= Len(chunk.code)]_vars

\* Every token kind of scanner.rs.
TokenTypes ==
    {"LeftParen", "RightParen", "LeftBrace", "RightBrace", "Comma", "Dot",
     "Minus", "Plus", "Semicolon", "Slash", "Star", "Bang", "BangEqual",
     "Equal", "EqualEqual", "Greater", "GreaterEqual", "Less", "LessEqual",
     "Identifier", "String", "Number", "And", "Class", "Else", "False", "For",
     "Fun", "If", "Nil", "Or", "Print", "Return", "Super", "This", "True",
     "Var", "While", "Eof"}

\* The token kinds of arithmetic expressions.
ArithmeticTokenTypes ==
    {"Number", "LeftParen", "RightParen", "Minus", "Plus", "Slash", "Star",
     "Eof"}

\* The kinds of the tokens scan_token returns from sc on, up to the first
\* Eof or the first call that returns no token.
RECURSIVE TokenKindsFrom(_, _)
TokenKindsFrom(src, sc) ==
    LET r == scan_token(src, sc) IN
    IF r.kind # "Token" THEN {r.kind}
    ELSE IF r.token.token_type = "Eof" THEN {"Eof"}
    ELSE {r.token.token_type} \cup TokenKindsFrom(src, r.sc)

\* C12 (as claimed): the rule table has handlers for arithmetic only, so a
\* compile succeeds only for a source all of whose tokens are arithmetic.
C12_OnlyArithmeticAccepted ==
    compiled = <<TRUE>> /\ Len(source) <= MaxExprToks + 1
        => TokenKindsFrom(source, ScannerNew) \subseteq ArithmeticTokenTypes

\* How many '(' tokens from sc on are still open at the end of the input,
\* or where scan_token stops returning tokens, given depth open ones.
RECURSIVE OpenParensFrom(_, _, _)
OpenParensFrom(src, sc, depth) ==
    LET r == scan_token(src, sc) IN
    IF r.kind \notin {"Token"} \cup LexicalErrors THEN depth
    ELSE IF r.kind \in LexicalErrors THEN OpenParensFrom(src, r.sc, depth)
    ELSE CASE r.token.token_type = "Eof" -> depth
           [] r.token.token_type = "LeftParen" ->
                 OpenParensFrom(src, r.sc, depth + 1)
           [] r.token.token_type = "RightParen" /\ depth > 0 ->
                 OpenParensFrom(src, r.sc, depth - 1)
           [] OTHER -> OpenParensFrom(src, r.sc, depth)

\* C13 (as claimed): for a source with a '(' token that no ')' closes,
\* compile returns, and returns false; for "(" it has printed one
\* diagnostic, reported at the end of the input.
C13_UnclosedParenFails ==
    Len(source) <= MaxExprToks + 1 /\ OpenParensFrom(source, ScannerNew, 0) > 0
        => /\ phase # "panic"
           /\ compiled \in {<<>>, <<FALSE>>}
           /\ source = <<"(">> /\ compiled # <<>>
                 => Len(diag) = 1 /\ diag[1].at = "end"

\* The token kind a lexeme of letters, digits and '_' is to get.
WordKind(lexeme) ==
    IF lexeme \in Keywords
    THEN (CHOOSE k \in ReservedWords : k[1] = lexeme)[2]
    ELSE "Identifier"

\* C14: a token whose lexeme starts with a letter or '_' has a keyword kind
\* exactly when the whole lexeme is one of the 16 reserved words, and then
\* that word's kind; every other such lexeme is an Identifier.
C14_KeywordsExact ==
    /\ parser.current # NoToken
    /\ parser.current.length > 0
    /\ is_alpha(source[parser.current.start + 1])
    => parser.current.token_type = WordKind(get_lexeme(source, parser.current))

\* C14 witness: "falses" was scanned as one Identifier.
C14_Witness ==
    /\ source = <<"f", "a", "l", "s", "e", "s">>
    /\ parser.current.length = 6
    /\ parser.current.token_type = "Identifier"

\* The byte of src at offset i, counted from 0, or NUL past the end.
ByteAt(src, i) == IF i < Len(src) THEN src[i + 1] ELSE NUL

\* The length of the maximal run of digits of src that starts at offset i.
RECURSIVE DigitRunLength(_, _)
DigitRunLength(src, i) ==
    IF ByteAt(src, i) \in Digits THEN 1 + DigitRunLength(src, i + 1) ELSE 0

\* The length a Number token that starts at offset i is to have: the digit
\* run, and a '.' with the digit run after it when that run is not empty.
NumberLength(src, i) ==
    LET whole == DigitRunLength(src, i)
        fraction == DigitRunLength(src, i + whole + 1)
    IN IF ByteAt(src, i + whole) = "." /\ fraction > 0
       THEN whole + 1 + fraction
       ELSE whole

\* C15 (as claimed): at a digit scan_token returns a Number token that
\* starts there and covers the digit run and, only when a digit follows
\* the '.', the fraction; at a '.' it returns a Dot token of one byte.
C15_NumberSpan ==
    AtAdvance =>
        /\ ByteAt(source, scanner.current) \in Digits =>
              /\ Scanned.kind = "Token"
              /\ Scanned.token.token_type = "Number"
              /\ Scanned.token.start = scanner.current
              /\ Scanned.token.length = NumberLength(source, scanner.current)
        /\ ByteAt(source, scanner.current) = "." =>
              /\ Scanned.kind = "Token"
              /\ Scanned.token.token_type = "Dot"
              /\ Scanned.token.start = scanner.current
              /\ Scanned.token.length = 1

\* How many of the first n bytes of src are newlines.
NewlinesBefore(src, n) == Cardinality({i \in 1..n : src[i] = "\n"})

\* C16 (as claimed): a token scan_token returns spans from the first byte
\* of its lexeme to the scanner's position after it, and its line is 1 plus
\* the number of newlines before its start, for strings with newlines too.
C16_TokenSpanAndLine ==
    AtAdvance /\ Scanned.kind = "Token" =>
        LET token == Scanned.token IN
        /\ token.start >= scanner.current
        /\ token.start + token.length = Scanned.sc.current
        /\ token.start + token.length <= Len(source)
        /\ token.token_type # "Eof" =>
              token.length > 0 /\ source[token.start + 1] \notin {" ", "\n"}
        /\ token.line = 1 + NewlinesBefore(source, token.start)

\* The token error_at is called with by the step that is being taken.
ReportedToken == IF PrefixNone THEN parser.previous ELSE parser.current

\* C17: a step that calls error_at outside panic mode appends exactly one
\* line to the writer: the token's line, "at end" for the end-of-input
\* token and otherwise the token's own lexeme, then the message; it sets
\* had_error; and the writer changes in no other way.
C17_DiagnosticLine ==
    /\ [][(AdvanceError \/ PrefixNone \/ ConsumeMismatch) /\ ~parser.panic_mode
          => /\ Len(diag') = Len(diag) + 1
             /\ parser'.had_error
             /\ LET d == diag'[Len(diag')]
                    t == ReportedToken
                IN /\ d.line = t.line
                   /\ t.token_type = "Eof" => d.at = "end"
                   /\ t.token_type # "Eof" =>
                         /\ d.at = "lexeme"
                         /\ d.lexeme = SubSeq(source, t.start + 1,
                                              t.start + t.length)
                   /\ AdvanceError =>
                         d.message \in {"Unexpected character",
                                        "Unterminated string"}
                   /\ PrefixNone => d.message = "Expect expression."
                   /\ ConsumeMismatch =>
                         d.message \in {"Expect end of expression.",
                                        "Expect ')' after expression."}]_vars
    /\ [][diag' # diag =>
             /\ Len(diag') = Len(diag) + 1
             /\ SubSeq(diag', 1, Len(diag)) = diag
             /\ ~parser.panic_mode
             /\ parser'.had_error]_vars

\* C17 witness: for "+" the line "[line 1] Error at '+': Expect expression."
\* was written.
C17_Witness ==
    /\ source = <<"+">>
    /\ parser.had_error
    /\ diag = <<[line |-> 1, at |-> "lexeme", lexeme |-> <<"+">>,
                 message |-> "Expect expression."]>>

\* The outcomes of a pass that an untraced run can end with.
Untraced(status) == {o \in run_step(chunk, vm) : o.status \in status}

RECURSIVE CompleteFrom(_, _)
\* The code from offset i on is a sequence of whole instructions.
CompleteFrom(code, i) ==
    \/ i = Len(code)
    \/ /\ i < Len(code)
       /\ code[i + 1] \in OP_CONSTANT..OP_RETURN
       /\ i + InstructionLength(code[i + 1]) <= Len(code)
       /\ CompleteFrom(code, i + InstructionLength(code[i + 1]))

\* The opcode a name of a listing stands for.
OpByte(name) == CHOOSE byte \in OP_CONSTANT..OP_RETURN : OpName(byte) = name

RECURSIVE ReadBack(_)
\* The bytes read back from the lines of a listing: opcode, then operand.
ReadBack(lines) ==
    IF lines = <<>> THEN <<>>
    ELSE <<OpByte(Head(lines).name)>> \o Head(lines).operand
         \o ReadBack(Tail(lines))

\* C20 (as claimed): disassemble_chunk on a chunk of whole instructions
\* returns, leaves the chunk as it was, and has printed one line per
\* instruction, in order, from offset 0 on, each offset 2 after a CONSTANT
\* and 1 after any other instruction; the names and operands read back are
\* the code of the chunk.
C20_ListingReadsBack ==
    [][ApiDisassemble /\ CompleteFrom(chunk.code, 0) =>
          /\ phase' = "listed"
          /\ chunk' = chunk
          /\ LET l == listing'[1].lines IN
                /\ ReadBack(l) = chunk.code
                /\ l # <<>> => l[1].offset = 0
                /\ \A i \in 1..(Len(l) - 1) :
                      l[i + 1].offset =
                          l[i].offset + InstructionLength(OpByte(l[i].name))]_vars

\* Nothing was compiled or run.
NothingInterpreted ==
    /\ phase = "main"
    /\ result = "none"
    /\ compiled = <<>>
    /\ chunk = ChunkNew
    /\ vm = VMNew
    /\ diag = <<>>
    /\ out = <<>>

-----------------------------------------------------------------------------
(* A reference code generator by the same grammar as the reference         *)
(* evaluator.  An instruction is its opcode and, for CONSTANT, the value   *)
(* it pushes; the code of 'a op b' is the code of a, the code of b, op.    *)

Ins(op, val) == [op |-> op, val |-> val]

RefNoCode == [ok |-> FALSE, ins |-> <<>>, pos |-> 0]

RECURSIVE RefCodeExpr(_, _), RefCodeExprRest(_, _), RefCodeTerm(_, _),
          RefCodeTermRest(_, _), RefCodeUnary(_, _), RefCodePrimary(_, _)

RefCodePrimary(s, i) ==
    IF RefAt(s, i) \in Digits
    THEN [ok |-> TRUE,
          ins |-> <<Ins(OP_CONSTANT, <<Num(1, DigitValue(s[i]), 1)>>)>>,
          pos |-> i + 1]
    ELSE IF RefAt(s, i) = "("
    THEN LET e == RefCodeExpr(s, i + 1) IN
         IF e.ok /\ RefAt(s, e.pos) = ")" THEN [e EXCEPT !.pos = @ + 1]
         ELSE RefNoCode
    ELSE RefNoCode

RefCodeUnary(s, i) ==
    IF RefAt(s, i) = "-"
    THEN LET u == RefCodeUnary(s, i + 1) IN
         IF u.ok THEN [u EXCEPT !.ins = @ \o <<Ins(OP_NEGATE, <<>>)>>]
         ELSE RefNoCode
    ELSE RefCodePrimary(s, i)

RefCodeTermRest(s, acc) ==
    IF acc.ok /\ RefAt(s, acc.pos) \in {"*", "/"}
    THEN LET u == RefCodeUnary(s, acc.pos + 1)
             op == IF s[acc.pos] = "*" THEN OP_MULTIPLY ELSE OP_DIVIDE
         IN
         IF u.ok
         THEN RefCodeTermRest(s, [u EXCEPT !.ins =
                                     acc.ins \o @ \o <<Ins(op, <<>>)>>])
         ELSE RefNoCode
    ELSE acc

RefCodeTerm(s, i) == RefCodeTermRest(s, RefCodeUnary(s, i))

RefCodeExprRest(s, acc) ==
    IF acc.ok /\ RefAt(s, acc.pos) \in {"+", "-"}
    THEN LET t == RefCodeTerm(s, acc.pos + 1)
             op == IF s[acc.pos] = "+" THEN OP_ADD ELSE OP_SUBTRACT
         IN
         IF t.ok
         THEN RefCodeExprRest(s, [t EXCEPT !.ins =
                                     acc.ins \o @ \o <<Ins(op, <<>>)>>])
         ELSE RefNoCode
    ELSE acc

RefCodeExpr(s, i) == RefCodeExprRest(s, RefCodeTerm(s, i))

RefCode(s) ==
    LET e == RefCodeExpr(s, 1) IN
    IF e.ok /\ e.pos = Len(s) + 1 THEN e ELSE RefNoCode

RECURSIVE Decode(_, _)
\* The instructions of a chunk from offset i on, each CONSTANT with the
\* value its operand indexes; what cannot be decoded is left out.
Decode(ch, i) ==
    IF i >= Len(ch.code) THEN <<>>
    ELSE IF ch.code[i + 1] # OP_CONSTANT
    THEN <<Ins(ch.code[i + 1], <<>>)>> \o Decode(ch, i + 1)
    ELSE IF i + 1 < Len(ch.code) /\ ch.code[i + 2] < Len(ch.constants)
    THEN <<Ins(OP_CONSTANT, <<ch.constants[ch.code[i + 2] + 1]>>)>>
         \o Decode(ch, i + 2)
    ELSE <<>>

\* The sources of at most MaxExprToks + 2 one-byte tokens that the grammar
\* derives.
WellFormed == Len(source) <= MaxExprToks + 2 /\ RefCode(source).ok

\* The positions of the source that hold a binary operator.
BinaryAt ==
    {i \in 2..Len(source) :
        /\ source[i] \in ExprOperators
        /\ source[i - 1] \in Digits \cup {")"}}

\* C22: for a source with a binary application, compile emits the code of
\* the left operand, then the code of the right operand, then the one
\* opcode of the operator; operators of equal precedence group to the left
\* and '*' '/' group tighter than '+' '-': the chunk is the code the
\* grammar gives, followed by RETURN.
C22_BinaryCode ==
    WellFormed /\ BinaryAt # {} /\ compiled # <<>> =>
        /\ compiled = <<TRUE>>
        /\ Decode(chunk, 0) = RefCode(source).ins \o <<Ins(OP_RETURN, <<>>)>>

\* C22 witness: "1-2-1" compiled to 1, 2, SUBTRACT, 1, SUBTRACT and
\* "1+2*1" to 1, 2, 1, MULTIPLY, ADD.
C22_Witness ==
    /\ compiled = <<TRUE>>
    /\ \/ /\ source = <<"1", "-", "2", "-", "1">>
          /\ chunk.code = <<OP_CONSTANT, 0, OP_CONSTANT, 1, OP_SUBTRACT,
                            OP_CONSTANT, 2, OP_SUBTRACT, OP_RETURN>>
       \/ /\ source = <<"1", "+", "2", "*", "1">>
          /\ chunk.code = <<OP_CONSTANT, 0, OP_CONSTANT, 1, OP_CONSTANT, 2,
                            OP_MULTIPLY, OP_ADD, OP_RETURN>>

\* The positions of the source that hold a prefix '-'.
PrefixMinusAt ==
    {i \in 1..Len(source) :
        /\ source[i] = "-"
        /\ i = 1 \/ source[i - 1] \in ExprOperators \cup {"("}}

\* The places of a sequence of instructions that hold a NEGATE.
NegatesOf(ins) == {i \in 1..Len(ins) : ins[i].op = OP_NEGATE}

\* C23: for a source with a prefix '-', the chunk is the code the grammar
\* gives: the code of the operand read at Unary precedence, then one NEGATE,
\* before any binary operator that follows is handled; there are as many
\* NEGATE instructions as prefix '-' signs; and a NEGATE is emitted by unary
\* only, and only when the operator it consumed was '-'.
C23_UnaryCode ==
    /\ [](WellFormed /\ PrefixMinusAt # {} /\ compiled # <<>> =>
            /\ compiled = <<TRUE>>
            /\ Decode(chunk, 0)
                  = RefCode(source).ins \o <<Ins(OP_RETURN, <<>>)>>
            /\ Cardinality(NegatesOf(Decode(chunk, 0)))
                  = Cardinality(PrefixMinusAt))
    /\ [][UnaryEmit =>
             chunk'.code = chunk.code
                \o (IF Head(calls).tt = "Minus" THEN <<OP_NEGATE>> ELSE <<>>)]_vars
    /\ [][/\ phase = "compile"
          /\ Len(chunk'.code) = Len(chunk.code) + 1
          /\ chunk'.code[Len(chunk'.code)] = OP_NEGATE
          => UnaryEmit /\ Head(calls).tt = "Minus"]_vars

\* C23 witness: "-(1+2)*1" compiled to 1, 2, ADD, NEGATE, 1, MULTIPLY.
C23_Witness ==
    /\ source = <<"-", "(", "1", "+", "2", ")", "*", "1">>
    /\ compiled = <<TRUE>>
    /\ chunk.code = <<OP_CONSTANT, 0, OP_CONSTANT, 1, OP_ADD, OP_NEGATE,
                      OP_CONSTANT, 2, OP_MULTIPLY, OP_RETURN>>

RECURSIVE ReturnOffsets(_, _)
\* The offsets, from i on, of the RETURN instructions of a code read at
\* instruction boundaries.
ReturnOffsets(code, i) ==
    IF i >= Len(code) THEN {}
    ELSE (IF code[i + 1] = OP_RETURN THEN {i} ELSE {})
         \cup ReturnOffsets(code, i + InstructionLength(code[i + 1]))

\* C24: once compile has returned, with true or with false, the last byte
\* of the chunk is RETURN; after a successful compile the chunk read at
\* instruction boundaries from offset 0 has exactly one RETURN, its last
\* instruction.
C24_TrailingReturn ==
    compiled # <<>> =>
        /\ chunk.code # <<>>
        /\ chunk.code[Len(chunk.code)] = OP_RETURN
        /\ compiled = <<TRUE>> =>
              ReturnOffsets(chunk.code, 0) = {Len(chunk.code) - 1}

\* C24 witness: a successful compile of seven literals or more, whose
\* seventh CONSTANT has the operand 6, the byte of RETURN, and a failed
\* compile that ends in RETURN all the same.
C24_Witness ==
    \/ /\ compiled = <<TRUE>>
       /\ Len(chunk.code) > 14
       /\ chunk.code[13] = OP_CONSTANT
       /\ chunk.code[14] = OP_RETURN
    \/ /\ compiled = <<FALSE>>
       /\ source = <<"1", "+">>
       /\ chunk.code = <<OP_CONSTANT, 0, OP_ADD, OP_RETURN>>

\* The sources made of blanks and newlines only, the empty one included.
Blank == \A i \in 1..Len(source) : source[i] \in {" ", "\n"}

\* C25: when the token after the top-level expression is not the end of
\* the input, consume reports "Expect end of expression." at that token
\* unless the parser is in panic mode already, and compile returns false;
\* a source that is empty or blank fails with the single diagnostic
\* "Expect expression." at end.
C25_EndOfExpression ==
    /\ [][ConsumeMismatch /\ Head(calls).tt = "Eof" =>
             /\ parser'.had_error
             /\ Head(calls').fn = "end_compiler"
             /\ parser.panic_mode => diag' = diag
             /\ ~parser.panic_mode =>
                   /\ Len(diag') = Len(diag) + 1
                   /\ diag'[Len(diag')].message = "Expect end of expression."
                   /\ diag'[Len(diag')].line = parser.current.line
                   /\ diag'[Len(diag')].at = "lexeme"
                   /\ diag'[Len(diag')].lexeme
                         = SubSeq(source, parser.current.start + 1,
                                  parser.current.start + parser.current.length)]_vars
    /\ [](compiled # <<>> /\ parser.current.token_type # "Eof" =>
             /\ compiled = <<FALSE>>
             /\ diag # <<>>)
    /\ [](Blank =>
             /\ calls # <<>> => phase # "panic"
             /\ compiled # <<>> =>
                   /\ compiled = <<FALSE>>
                   /\ diag = <<[line |-> 1 + NewlinesBefore(source, Len(source)),
                                at |-> "end", lexeme |-> <<>>,
                                message |-> "Expect expression."]>>)

\* C25 witness: "1 1" was compiled: "Expect end of expression." at the
\* second '1', and false.
C25_Witness ==
    /\ source = <<"1", " ", "1">>
    /\ compiled = <<FALSE>>
    /\ parser.current.start = 2
    /\ diag = <<[line |-> 1, at |-> "lexeme", lexeme |-> <<"1">>,
                 message |-> "Expect end of expression."]>>

\* C26: while the parser is in panic mode, a step that calls error_at,
\* through error or error_at_current, writes nothing and leaves had_error,
\* panic_mode, current and previous as they were (advance has stored
\* current in previous before it calls error_at_current).
C26_PanicModeSilent ==
    [][parser.panic_mode /\ phase = "compile" =>
          /\ diag' = diag
          /\ parser'.had_error = parser.had_error
          /\ parser'.panic_mode = parser.panic_mode
          /\ PrefixNone \/ ConsumeMismatch \/ PrefixNumber => parser' = parser
          /\ AdvanceError => parser' = AdvanceParser]_vars

\* C26 witness: ")(" was compiled: "Expect expression." at ')' was written,
\* and the '(' that consume met instead of the end of the input was passed
\* over in silence.
C26_Witness ==
    /\ source = <<")", "(">>
    /\ compiled = <<FALSE>>
    /\ parser.current.token_type = "LeftParen"
    /\ parser.panic_mode
    /\ Len(diag) = 1
    /\ diag[1].message = "Expect expression."

\* C27 (as claimed): while the chunk of a successful compile runs, ADD,
\* SUBTRACT, MULTIPLY and DIVIDE on a stack whose two top values are a
\* (below) and b (top) replace them by a op b, with stack_top one less and
\* the slots below as they were; CONSTANT leaves the slots as they were and
\* stack_top one more; NEGATE leaves stack_top and negates the top value
\* only.
C27_StackEffects ==
    [][compiled = <<TRUE>> /\ phase = "run" /\ vm.ip < Len(chunk.code) =>
          LET op == chunk.code[vm.ip + 1]
              top == vm.stack_top
          IN
          /\ op \in {OP_ADD, OP_SUBTRACT, OP_MULTIPLY, OP_DIVIDE} /\ top >= 2 =>
                /\ phase' = "run"
                /\ vm'.stack_top = top - 1
                /\ vm'.stack = SubSeq(vm.stack, 1, top - 2)
                      \o <<Arith(op, vm.stack[top - 1], vm.stack[top])>>
          /\ op = OP_CONSTANT =>
                /\ phase' = "run"
                /\ vm'.stack_top = top + 1
                /\ SubSeq(vm'.stack, 1, top) = vm.stack
          /\ op = OP_NEGATE /\ top >= 1 =>
                /\ phase' = "run"
                /\ vm'.stack_top = top
                /\ vm'.stack = [vm.stack EXCEPT ![top] = Flip(@)]]_vars

Extends(longer, shorter) ==
    /\ Len(longer) >= Len(shorter)
    /\ SubSeq(longer, 1, Len(shorter)) = shorter

C29_AppendOnly ==
    /\ [][/\ Extends(chunk'.code, chunk.code)
          /\ Extends(chunk'.lines, chunk.lines)
          /\ Extends(chunk'.constants, chunk.constants)
          /\ ApiWrite =>
                /\ Len(chunk'.code) = Len(chunk.code) + 1
                /\ Len(chunk'.lines) = Len(chunk.lines) + 1
                /\ chunk'.constants = chunk.constants
          /\ ApiAddConstant =>
                /\ Len(chunk'.constants) = Len(chunk.constants) + 1
                /\ chunk'.constants[Len(chunk'.constants)] \in ApiValues
                /\ chunk'.code = chunk.code
                /\ chunk'.lines = chunk.lines]_vars
    /\ [](\A value \in ApiValues :
             LET r == add_constant(chunk, value) IN
             /\ r.index = Len(chunk.constants)
             /\ r.chunk.constants[r.index + 1] = value
             /\ Extends(r.chunk.constants, chunk.constants)
             /\ Len(r.chunk.constants) = Len(chunk.constants) + 1
             /\ r.chunk.code = chunk.code
             /\ r.chunk.lines = chunk.lines)
    /\ [](\A byte \in ApiBytes, line \in ApiLines :
             LET c == write(chunk, byte, line) IN
             /\ c.code = Append(chunk.code, byte)
             /\ c.lines = Append(chunk.lines, line)
             /\ c.constants = chunk.constants)

\* A chunk written by hand: 1.2 was added, then 4.3, then RETURN was
\* written for line 123.
C29_Witness ==
    /\ phase = "api"
    /\ chunk.constants = <<Num(1, 6, 5), Num(1, 43, 10)>>
    /\ chunk.code = <<OP_RETURN>>
    /\ chunk.lines = <<123>>

\* The values of the Number tokens among the next n tokens scan_token
\* returns from sc on, in the order of the source, and the scanner after
\* them; the scanner stays where a call returns Eof or no token.  The
\* tokens are taken half by half, so that the nesting of the evaluation
\* stays logarithmic in n.
RECURSIVE LiteralsAmong(_, _, _)
LiteralsAmong(src, sc, n) ==
    IF n = 0 \/ sc.current >= Len(src) THEN [sc |-> sc, values |-> <<>>]
    ELSE IF n = 1
    THEN LET r == scan_token(src, sc) IN
         IF r.kind # "Token" \/ r.token.token_type = "Eof"
         THEN [sc |-> sc, values |-> <<>>]
         ELSE [sc |-> r.sc,
               values |-> IF r.token.token_type = "Number"
                          THEN <<parse_f64(get_lexeme(src, r.token))>>
                          ELSE <<>>]
    ELSE LET front == LiteralsAmong(src, sc, n \div 2)
             back == LiteralsAmong(src, front.sc, n - n \div 2)
         IN [sc |-> back.sc, values |-> front.values \o back.values]

\* The values of all number literals of src: it has at most Len(src)
\* tokens before Eof.
Literals(src) == LiteralsAmong(src, ScannerNew, Len(src)).values

\* The operands of the CONSTANT instructions among the next n instructions
\* of code from offset i on, in the order of the code, and the offset after
\* them; taken half by half like the tokens.
RECURSIVE OperandsAmong(_, _, _)
OperandsAmong(code, i, n) ==
    IF n = 0 \/ i >= Len(code) THEN [next |-> i, operands |-> <<>>]
    ELSE IF n = 1
    THEN IF code[i + 1] # OP_CONSTANT THEN [next |-> i + 1, operands |-> <<>>]
         ELSE IF i + 1 >= Len(code) THEN [next |-> i + 1, operands |-> <<>>]
         ELSE [next |-> i + 2, operands |-> <<code[i + 2]>>]
    ELSE LET front == OperandsAmong(code, i, n \div 2)
             back == OperandsAmong(code, front.next, n - n \div 2)
         IN [next |-> back.next, operands |-> front.operands \o back.operands]

\* The operands of all CONSTANT instructions of code: it has at most
\* Len(code) instructions.
ConstantOperands(code) == OperandsAmong(code, 0, Len(code)).operands

\* C30: when compile has returned true, the constant pool is the sequence
\* of the values of the number literals of the source, in source order and
\* with equal values repeated, and the k-th CONSTANT instruction of the
\* code has the operand k - 1.
C30_ConstantsInSourceOrder ==
    phase = "compiled" /\ compiled = <<TRUE>> =>
        LET literals == Literals(source) IN
        /\ chunk.constants = literals
        /\ ConstantOperands(chunk.code) = [k \in 1..Len(literals) |-> k - 1]

\* 1+1 was compiled: the pool holds 1 twice, and the two CONSTANT
\* instructions have the operands 0 and 1.
C30_Witness ==
    /\ phase = "compiled"
    /\ compiled = <<TRUE>>
    /\ source = <<"1", "+", "1">>
    /\ chunk.constants = <<Num(1, 1, 1), Num(1, 1, 1)>>
    /\ chunk.code = <<OP_CONSTANT, 0, OP_CONSTANT, 1, OP_ADD, OP_RETURN>>

\* The offset the next token starts at: the scanner's position after the
\* whitespace and the comments in front of it.
TokenStart == skip_whitespace(source, scanner)

\* The offsets after i at which src has a '"'.
QuotesAfter(src, i) == {q \in (i + 1)..(Len(src) - 1) : ByteAt(src, q) = "\""}

\* C31: when advance calls scan_token at a '"': if the source has no later
\* '"', scan_token returns UnterminatedString and leaves the scanner at the
\* end of the input, and the call after it returns the end-of-input token;
\* if it has one, scan_token returns a String token that spans from the
\* opening quote to the first later one, both included.  The step advance
\* takes leaves the scanner where scan_token left it.
C31_StringScan ==
    /\ [](AtAdvance /\ ~TokenStart.panic
            /\ ByteAt(source, TokenStart.sc.current) = "\"" =>
             LET open == TokenStart.sc.current
                 closing == QuotesAfter(source, open)
             IN
             IF closing = {}
             THEN /\ Scanned.kind = "UnterminatedString"
                  /\ Scanned.sc.current = Len(source)
                  /\ LET next == scan_token(source, Scanned.sc) IN
                     /\ next.kind = "Token"
                     /\ next.token.token_type = "Eof"
                     /\ next.token.start = Len(source)
                     /\ next.token.length = 0
             ELSE /\ Scanned.kind = "Token"
                  /\ Scanned.token.token_type = "String"
                  /\ Scanned.token.start = open
                  /\ \A q \in closing : Scanned.token.start + Scanned.token.length <= q + 1
                  /\ Scanned.token.start + Scanned.token.length - 1 \in closing)
    /\ [][AtAdvance /\ ~TokenStart.panic
            /\ ByteAt(source, TokenStart.sc.current) = "\""
            /\ QuotesAfter(source, TokenStart.sc.current) = {}
          => scanner'.current = Len(source)]_vars

\* Of the source of three '"', the first two were scanned as one String
\* token, the third was reported as an unterminated string, and the call
\* after that returned the end-of-input token.
C31_Witness ==
    /\ source = <<"\"", "\"", "\"">>
    /\ parser.previous = [token_type |-> "String", start |-> 0, length |-> 2,
                          line |-> 1]
    /\ parser.current = [token_type |-> "Eof", start |-> 3, length |-> 0,
                         line |-> 1]
    /\ scanner.current = 3
    /\ Len(diag) = 1
    /\ diag[1].message = "Unterminated string"

\* C32 (as claimed): on the VM of a REPL, every interpret of a chunk that a
\* successful compile produced returns, and leaves stack_top at the value
\* it had before the call.
C32_StackRestored ==
    [][ReplInterpret /\ compiled = <<TRUE>> =>
          /\ phase' = "done"
          /\ vm'.stack_top = vm.stack_top]_vars

\* C33: in every state of a compile and at its return, had_error and
\* panic_mode are equal, they are true exactly when a diagnostic line was
\* written, and at most one line was written; no step clears either flag.
C33_OneDiagnostic ==
    /\ [](phase \in {"compile", "compiled"} =>
             /\ parser.had_error = parser.panic_mode
             /\ parser.had_error = (diag # <<>>)
             /\ Len(diag) <= 1)
    /\ [][/\ parser.had_error => parser'.had_error
          /\ parser.panic_mode => parser'.panic_mode]_vars

\* 1## was compiled: two bytes that are no tokens follow the literal, both
\* flags are set and one line was written.
C33_Witness ==
    /\ source = <<"1", "#", "#">>
    /\ compiled = <<FALSE>>
    /\ scanner.current = 3
    /\ parser.had_error
    /\ parser.panic_mode
    /\ Len(diag) = 1
    /\ diag[1].message = "Unexpected character"

\* How many values the instruction with this opcode pops, and how many it
\* leaves on the stack more than it found.
Pops(byte) ==
    CASE byte = OP_CONSTANT -> 0
      [] byte \in {OP_NEGATE, OP_RETURN} -> 1
      [] OTHER -> 2

StackEffect(byte) ==
    CASE byte = OP_CONSTANT -> 1
      [] byte = OP_NEGATE -> 0
      [] OTHER -> 0 - 1

\* The next n instructions of code decoded from offset i on, with the stack
\* depth `depth` before them: the offset and the depth after them, and
\* whether each of them had a known opcode, its operand byte inside the
\* code, and at least the values it pops.  The instructions are taken half
\* by half.
RECURSIVE DecodeAmong(_, _, _, _)
DecodeAmong(code, i, depth, n) ==
    IF n = 0 \/ i >= Len(code) THEN [next |-> i, depth |-> depth, ok |-> TRUE]
    ELSE IF n = 1
    THEN LET byte == code[i + 1] IN
         [next |-> i + InstructionLength(byte),
          depth |-> depth + StackEffect(byte),
          ok |-> /\ byte \in OP_CONSTANT..OP_RETURN
                 /\ i + InstructionLength(byte) <= Len(code)
                 /\ depth >= Pops(byte)]
    ELSE LET front == DecodeAmong(code, i, depth, n \div 2) IN
         IF ~front.ok THEN front
         ELSE DecodeAmong(code, front.next, front.depth, n - n \div 2)

\* C34: when compile has returned true, decoding the code from offset 0
\* with an empty stack meets known opcodes only, every CONSTANT has its
\* operand byte, every instruction finds the values it pops, and the
\* decoding ends at the length of the code; and while such a chunk runs,
\* the VM does not panic for an unknown opcode, for a read outside the
\* code or for a pop from the empty stack.
C34_WellFormedStream ==
    /\ phase = "compiled" /\ compiled = <<TRUE>> =>
          LET d == DecodeAmong(chunk.code, 0, 0, Len(chunk.code)) IN
          d.ok /\ d.next = Len(chunk.code)
    /\ compiled = <<TRUE>> =>
          panic \notin {"Unknown opcode", "Index is out of bounds",
                        "Stack index out of bounds"}

\* -(1+2)*1 was compiled: seven instructions in ten bytes, the deepest
\* stack two values, one value left for RETURN.
C34_Witness ==
    /\ phase = "compiled"
    /\ compiled = <<TRUE>>
    /\ source \in TestSources
    /\ chunk.code = <<OP_CONSTANT, 0, OP_CONSTANT, 1, OP_ADD, OP_NEGATE,
                      OP_CONSTANT, 2, OP_MULTIPLY, OP_RETURN>>
    /\ DecodeAmong(chunk.code, 0, 0, 6) = [next |-> 9, depth |-> 1, ok |-> TRUE]

\* C35: every token kind to which the table gives a precedence of at least
\* Assignment has an infix handler, and its precedence plus one is a
\* precedence level; so the token the infix loop of parse_precedence has
\* consumed always has an infix handler and a level for its right operand,
\* and the step that calls the handler never panics.
C35_InfixNeverFails ==
    /\ [](\A token_type \in TokenTypes :
             LET rule == get_rule(token_type) IN
             rule.precedence >= PREC_ASSIGNMENT =>
                /\ rule.infix # "none"
                /\ rule.precedence + 1 \in PREC_NONE..PREC_PRIMARY)
    /\ [](At("parse_precedence.infix") =>
             LET rule == get_rule(parser.previous.token_type) IN
             /\ rule.infix # "none"
             /\ rule.precedence + 1 \in PREC_NONE..PREC_PRIMARY)
    /\ [][Infix => phase' = "compile" /\ panic' = "none"]_vars

\* In 1>=1 the infix loop has consumed '>=' and is about to call its
\* handler.
C35_Witness ==
    /\ source = <<"1", ">", "=", "1">>
    /\ At("parse_precedence.infix")
    /\ parser.previous.token_type = "GreaterEqual"
    /\ parser.current.token_type = "Number"

\* C36: once the end-of-input token is the current token, scan_token
\* returns that same token again (same start, zero length, same line) and
\* leaves the scanner's position and line where they are, and no step
\* changes the current token or moves the scanner; and when scan_token
\* returns a token after another one (the current token of the parser),
\* the earlier one is not empty and ends at or before the start of the
\* later one, which ends inside the source.
C36_EofSticky ==
    /\ [](AtAdvance /\ parser.current.token_type = "Eof" =>
             /\ Scanned.kind = "Token"
             /\ Scanned.token = parser.current
             /\ Scanned.token.length = 0
             /\ Scanned.sc.current = scanner.current
             /\ Scanned.sc.line = scanner.line)
    /\ [][parser.current.token_type = "Eof" =>
             /\ parser'.current = parser.current
             /\ scanner'.current = scanner.current
             /\ scanner'.line = scanner.line]_vars
    /\ [](/\ AtAdvance
          /\ parser.current # NoToken
          /\ parser.current.token_type # "Eof"
          /\ Scanned.kind = "Token"
          => /\ parser.current.length > 0
             /\ parser.current.start + parser.current.length
                   <= Scanned.token.start
             /\ Scanned.token.start + Scanned.token.length <= Len(source))

\* 1-2 was compiled: after its three tokens the end-of-input token was
\* returned for the expression and once more for the advance of consume.
C36_Witness ==
    /\ source = <<"1", "-", "2">>
    /\ compiled = <<TRUE>>
    /\ parser.previous = [token_type |-> "Eof", start |-> 3, length |-> 0,
                          line |-> 1]
    /\ parser.current = parser.previous
    /\ scanner.current = 3

\* C37: every entry a step of the compiler adds to the lines of the chunk
\* is the line of parser.previous as that step finds it, and it adds one
\* entry for each byte of code; the step that emits a CONSTANT instruction
\* adds two entries; and the lines of the chunk of a compile never
\* decrease from one entry to the next.
C37_LinesOfPrevious ==
    /\ [][phase = "compile" =>
             /\ Len(chunk'.lines) - Len(chunk.lines)
                   = Len(chunk'.code) - Len(chunk.code)
             /\ \A i \in (Len(chunk.lines) + 1)..Len(chunk'.lines) :
                   chunk'.lines[i] = parser.previous.line
             /\ PrefixNumber => Len(chunk'.lines) = Len(chunk.lines) + 2]_vars
    /\ [](phase = "compile" \/ compiled # <<>> =>
             \A i \in 1..(Len(chunk.lines) - 1) :
                chunk.lines[i] <= chunk.lines[i + 1])

\* "1" and a newline were compiled: the two bytes of CONSTANT have line 1
\* and RETURN has line 2, the line of the end-of-input token.
C37_Witness ==
    /\ source = <<"1", "\n">>
    /\ compiled = <<TRUE>>
    /\ chunk.code = <<OP_CONSTANT, 0, OP_RETURN>>
    /\ chunk.lines = <<1, 1, 2>>

====
